---- MODULE Spec2Model ----
(***************************************************************************)
(* Model of the real-time behavioural detection engine                     *)
(* (src/app/detection_sistem.py, class SysmonMalwareDetector).             *)
(*                                                                         *)
(* The detector object is a record `self'-style state.  A method is the    *)
(* sequence of its operations on that state; a thread runs one statement   *)
(* that reads or writes the shared collections per step, so that the       *)
(* threads interleave between any two such statements.  Confidences are    *)
(* percentages (0..100 for 0.0..1.0); on that grid the float comparisons   *)
(* of the code agree with the integer comparisons used here.               *)
(***************************************************************************)
EXTENDS Integers, Sequences, FiniteSets, TLC

None == "<None>"

------------------------------------------------------------------------------
(* Bounds of the model *)

MaxEvents == 3
MaxSweeps == 1

------------------------------------------------------------------------------
(* Program constants *)

BufferMaxLen == 500
MinApiCalls == 3
DetectionThreshold == 50
HardCeiling == 70
MlSoftFloor == 40
HeuristicSoftFloor == 50
TrimAbove == 100
TrimKeep == 50
InjectionDelta == 50
CriticalAccessDelta == 30
AiDomainDelta == 60
PolymorphicDelta == 40
FileExtDelta == 20
FileDirDelta == 15
RegistryDelta == 25
TamperDelta == 50
PatternWeight == 15
ComboBonus == 50
ComboMinCalls == 10
InjectionThreshold == 1
ThreatCap == 100
EventIdMask == 65536

sysmon_events == {1, 2, 3, 5, 7, 8, 9, 10, 11, 12, 13, 14, 15, 17, 18, 19,
                  20, 21, 22, 23, 25, 26, 27, 29}

whitelist_processes == {"svchost.exe", "System", "smss.exe", "csrss.exe",
                        "wininit.exe", "services.exe", "lsass.exe",
                        "winlogon.exe", "dwm.exe", "explorer.exe",
                        "conhost.exe"}

critical_processes == {"lsass.exe", "winlogon.exe", "csrss.exe",
                       "services.exe", "smss.exe", "wininit.exe"}

suspicious_extensions == {".exe", ".dll", ".scr", ".bat", ".ps1", ".vbs",
                          ".com", ".pif", ".cmd", ".msi", ".jar", ".hta"}

suspicious_directories == {"temp", "tmp", "appdata\\local\\temp",
                           "windows\\temp", "programdata", "users\\public"}

ai_keywords == {"openai", "anthropic", "claude", "gpt", "api", "chat",
                "generate"}

api_ports == {"80", "443", "8080", "8443"}

------------------------------------------------------------------------------
(* String vocabulary of the model and the string functions of the code,    *)
(* tabulated on that vocabulary.                                           *)

AppImage == "C:\\Apps\\app.exe"
PsImage == "C:\\Windows\\System32\\powershell.exe"
SvcImage == "C:\\Windows\\System32\\SvcHost.exe"
LsassImage == "C:\\Windows\\System32\\lsass.exe"
NotepadImage == "C:\\Windows\\notepad.exe"
KernelDll == "C:\\Windows\\System32\\KERNEL32.DLL"
DropFile == "C:\\Users\\Public\\drop.exe"
TempFile == "C:\\Temp\\notes.txt"
DocFile == "C:\\Docs\\report.txt"

\* Path(p).name.lower()
PathNameLower(p) ==
    CASE p = AppImage -> "app.exe"
      [] p = PsImage -> "powershell.exe"
      [] p = SvcImage -> "svchost.exe"
      [] p = LsassImage -> "lsass.exe"
      [] p = NotepadImage -> "notepad.exe"
      [] p = KernelDll -> "kernel32.dll"
      [] p = DropFile -> "drop.exe"
      [] p = TempFile -> "notes.txt"
      [] p = DocFile -> "report.txt"
      [] OTHER -> p

\* Path(p).suffix.lower()
PathSuffixLower(p) ==
    CASE p \in {AppImage, PsImage, SvcImage, LsassImage, NotepadImage,
                DropFile} -> ".exe"
      [] p = KernelDll -> ".dll"
      [] p \in {TempFile, DocFile} -> ".txt"
      [] OTHER -> ""

\* str(Path(p).parent).lower()
PathParentLower(p) ==
    CASE p = AppImage -> "c:\\apps"
      [] p \in {PsImage, SvcImage, LsassImage, KernelDll} ->
             "c:\\windows\\system32"
      [] p = NotepadImage -> "c:\\windows"
      [] p = DropFile -> "c:\\users\\public"
      [] p = TempFile -> "c:\\temp"
      [] p = DocFile -> "c:\\docs"
      [] OTHER -> "."

\* needle in haystack.lower(), for the needles the code searches for
ContainsLower(haystack, needle) ==
    \/ /\ haystack = "c:\\users\\public" /\ needle = "users\\public"
    \/ /\ haystack = "c:\\temp" /\ needle \in {"temp"}
    \/ /\ haystack = "api.openai.com"
       /\ needle \in {"openai", "api", "openai.com", "api.openai.com"}
    \/ /\ haystack = "chat.example.org" /\ needle \in {"chat"}
    \/ /\ haystack = "powershell.exe -enc AAAA"
       /\ needle \in {"powershell"}
    \/ /\ haystack = "cmd.exe /c app.exe" /\ needle \in {"cmd"}
    \/ /\ haystack = "CreateRemoteThread" /\ needle = "createremotethread"
    \/ /\ haystack = "VirtualAlloc" /\ needle = "virtualalloc"
    \/ /\ haystack = "WriteProcessMemory" /\ needle = "writeprocessmemory"
    \/ /\ haystack = "RegSetValue" /\ needle = "regsetvalue"
    \/ /\ haystack \in {"connect:10.0.0.5:443", "connect:10.0.0.5:None",
                        "connect:10.0.0.5:5000", "connect"}
       /\ needle = "connect"
    \/ /\ haystack \in {"connect:10.0.0.5:443", "connect:10.0.0.5:None",
                        "connect:10.0.0.5:5000"}
       /\ needle = "connect:"
    \/ /\ haystack \in {"connect:api.openai.com:443",
                        "connect:chat.example.org:443"}
       /\ needle \in {"connect:", "connect"}
    \/ /\ haystack = "connect:api.openai.com:443"
       /\ needle \in {"connect:api", "openai", "api"}

\* str(x) inside an f-string
Str(x) == IF x = None THEN "None" ELSE x

\* Python truthiness of an optional string
Truthy(x) == x # None /\ x # ""

------------------------------------------------------------------------------
(* Raw events of the event log and _parse_event_xml                        *)

\* A StringInserts array of n positional fields; m gives the fields that
\* matter (0-based, as the code indexes them), the others are empty strings.
Inserts(n, m) == [i \in 1..n |-> IF (i - 1) \in DOMAIN m THEN m[i - 1] ELSE ""]

\* xml_data[i] if len(xml_data) > i else None
Field(xml_data, i) == IF Len(xml_data) > i THEN xml_data[i + 1] ELSE None

Get(d, k, default) == IF k \in DOMAIN d THEN d[k] ELSE default

\* the None that _parse_event_xml returns, as an empty mapping
NoEventData == <<>>

event_id_of(event) == event.EventID % EventIdMask

parse_event_xml(event) ==
    LET xml_data == event.StringInserts
        id == event_id_of(event)
        base == [EventID |-> id]
    IN  IF xml_data = <<>> THEN NoEventData
        ELSE CASE id = 1 ->
                    base @@ [ProcessId |-> Field(xml_data, 3),
                             Image |-> Field(xml_data, 4),
                             CommandLine |-> Field(xml_data, 10),
                             ParentImage |-> Field(xml_data, 13)]
               [] id = 3 ->
                    base @@ [ProcessId |-> Field(xml_data, 3),
                             Image |-> Field(xml_data, 4),
                             DestinationIp |-> Field(xml_data, 14),
                             DestinationPort |-> Field(xml_data, 16)]
               [] id = 7 ->
                    base @@ [ProcessId |-> Field(xml_data, 3),
                             Image |-> Field(xml_data, 4),
                             ImageLoaded |-> Field(xml_data, 5)]
               [] id = 8 ->
                    base @@ [SourceProcessId |-> Field(xml_data, 3),
                             TargetProcessId |-> Field(xml_data, 6),
                             SourceImage |-> Field(xml_data, 4)]
               [] id = 10 ->
                    base @@ [SourceProcessId |-> Field(xml_data, 3),
                             TargetProcessId |-> Field(xml_data, 6),
                             SourceImage |-> Field(xml_data, 4),
                             TargetImage |-> Field(xml_data, 7)]
               [] id = 11 ->
                    base @@ [ProcessId |-> Field(xml_data, 3),
                             Image |-> Field(xml_data, 4),
                             TargetFilename |-> Field(xml_data, 5)]
               [] OTHER -> base

------------------------------------------------------------------------------
(* The detector's collections                                              *)

\* a deque that never evicts
deque_append_unbounded(buf, x, n) == Append(buf, x)

\* deque(maxlen=n).append(x)
deque_append(buf, x, n) ==
    IF Len(buf) >= n THEN Append(Tail(buf), x) ELSE Append(buf, x)

\* self.process_api_calls[pid] on the defaultdict: a missing key is created
calls_touch(s, pid) ==
    IF pid \in DOMAIN s.calls THEN s
    ELSE [s EXCEPT !.calls = (pid :> <<>>) @@ s.calls,
                   !.keys = Append(s.keys, pid)]

\* self.process_api_calls[pid].append(token)
calls_append(s, pid, token) ==
    LET t == calls_touch(s, pid)
    IN  [t EXCEPT !.calls[pid] = deque_append(@, token, BufferMaxLen),
                  !.appended = Append(@, <<pid, token>>)]

\* self.process_api_calls[pid] = deque(tokens, maxlen=500)
calls_assign(s, pid, tokens) ==
    LET t == calls_touch(s, pid)
    IN  [t EXCEPT !.calls[pid] = tokens]

RemoveKey(f, k) == [x \in (DOMAIN f) \ {k} |-> f[x]]

RemoveFromSeq(q, k) == SelectSeq(q, LAMBDA x : x # k)

\* del self.process_api_calls[pid] (guarded by `in')
calls_delete(s, pid) ==
    [s EXCEPT !.calls = RemoveKey(s.calls, pid),
              !.keys = RemoveFromSeq(s.keys, pid)]

NoCounters == [injection |-> 0, network |-> 0, ai_communication |-> 0,
               suspicious_commands |-> 0, api_calls |-> 0]

\* self.pattern_counters[pid] on the defaultdict
counters_touch(s, pid) ==
    IF pid \in DOMAIN s.counters THEN s
    ELSE [s EXCEPT !.counters = (pid :> NoCounters) @@ s.counters]

\* self.pattern_counters[pid][name] += 1
counters_inc(s, pid, name) ==
    LET t == counters_touch(s, pid)
    IN  [t EXCEPT !.counters[pid][name] = @ + 1]

stat_inc(s, name) == [s EXCEPT !.stats[name] = @ + 1]

------------------------------------------------------------------------------
(* Threat score, classifier and fusion                                     *)

memory_operations == {"virtualalloc", "writeprocessmemory",
                      "createremotethread"}
injection_patterns == {"createremotethread", "setwindowshook",
                       "ntmapviewofsection"}
ai_communication_patterns == {"connect:api", "connect:openai",
                              "httpsendrequest"}
obfuscation_patterns == {"cryptencrypt", "cryptdecrypt", "base64"}
persistence_patterns == {"regsetvalue", "createservice", "setwindowshook"}

polymorphic_patterns == <<memory_operations, injection_patterns,
                          ai_communication_patterns, obfuscation_patterns,
                          persistence_patterns>>

\* the distinct tokens of a call list
Tokens(api_calls) == {api_calls[i] : i \in 1..Len(api_calls)}

\* pattern in ' '.join(api_calls).lower(); no pattern contains a blank, so a
\* match lies within one token
InApiString(tokens, pattern) ==
    \E tok \in tokens : ContainsLower(tok, pattern)

\* sum(1 for pattern in patterns if pattern in api_string)
pattern_count(tokens, patterns) ==
    Cardinality({p \in patterns : InApiString(tokens, p)})

RECURSIVE SumCounts(_, _)
SumCounts(tokens, k) ==
    IF k = 0 THEN 0
    ELSE pattern_count(tokens, polymorphic_patterns[k]) * PatternWeight
         + SumCounts(tokens, k - 1)

Min(a, b) == IF a < b THEN a ELSE b

\* _calculate_threat_score returning the sum without the cap of line 965
calculate_threat_score_uncapped(s, pid, api_calls) ==
    LET base == IF pid \in DOMAIN s.info
                THEN s.info[pid].suspicious_score ELSE 0
        tokens == Tokens(api_calls)
        combo == IF /\ InApiString(tokens, "createremotethread")
                    /\ InApiString(tokens, "connect:")
                    /\ Len(api_calls) > ComboMinCalls
                 THEN ComboBonus ELSE 0
    IN  base + SumCounts(tokens, Len(polymorphic_patterns)) + combo

\* _calculate_threat_score, lines 931-969
calculate_threat_score(s, pid, api_calls) ==
    LET base == IF pid \in DOMAIN s.info
                THEN s.info[pid].suspicious_score ELSE 0
        tokens == Tokens(api_calls)
        pats == SumCounts(tokens, Len(polymorphic_patterns))
        combo == IF /\ InApiString(tokens, "createremotethread")
                    /\ InApiString(tokens, "connect:")
                    /\ Len(api_calls) > ComboMinCalls
                 THEN ComboBonus ELSE 0
    IN  Min(base + pats + combo, ThreatCap)

\* The loaded pipeline is one of these stubs: it answers every sequence with
\* a fixed (label, confidence) or it raises.
NoResult == [ok |-> FALSE]

predict(model, api_calls, pid) ==
    IF model.raises THEN NoResult
    ELSE [ok |-> TRUE, pid |-> pid, prediction |-> model.label,
          confidence |-> model.confidence, api_calls |-> api_calls]

\* decide_is_malware without the hard heuristic ceiling
decide_without_ceiling(confidence, threat_score, detection_threshold) ==
    \/ confidence + threat_score > 2 * detection_threshold
    \/ (confidence > MlSoftFloor /\ threat_score > HeuristicSoftFloor)

\* decide_is_malware with the hard ceiling reached at the ceiling itself
decide_ceiling_inclusive(confidence, threat_score, detection_threshold) ==
    \/ confidence + threat_score > 2 * detection_threshold
    \/ threat_score >= HardCeiling
    \/ (confidence > MlSoftFloor /\ threat_score > HeuristicSoftFloor)

\* decide_is_malware comparing the classifier confidence, not the adjusted
\* confidence, with the threshold
decide_on_raw_confidence(confidence, threat_score, detection_threshold) ==
    \/ confidence > detection_threshold
    \/ threat_score > HardCeiling
    \/ (confidence > MlSoftFloor /\ threat_score > HeuristicSoftFloor)

\* decide_is_malware with the threshold reached at the threshold itself
decide_threshold_inclusive(confidence, threat_score, detection_threshold) ==
    \/ confidence + threat_score >= 2 * detection_threshold
    \/ threat_score > HardCeiling
    \/ (confidence > MlSoftFloor /\ threat_score > HeuristicSoftFloor)

\* is_malware of _analyze_process; adjusted_confidence is
\* (confidence + threat_score) / 200 of the unit, so it exceeds the threshold
\* exactly when confidence + threat_score > 2 * threshold
decide_is_malware(confidence, threat_score, detection_threshold) ==
    \/ confidence + threat_score > 2 * detection_threshold
    \/ threat_score > HardCeiling
    \/ (confidence > MlSoftFloor /\ threat_score > HeuristicSoftFloor)

------------------------------------------------------------------------------
(* Statements, calls and exceptions                                        *)
(*                                                                         *)
(* A method is a sequence of operations on the detector.  An operation is  *)
(* one statement that reads or writes a collection the two threads share;  *)
(* a thread may be preempted between any two operations.  Yield stands for *)
(* a logging call, which changes nothing of the detector.  A call of a     *)
(* method puts the operations of the callee in front of what the caller    *)
(* has left to do.                                                         *)

Yield == [op |-> "yield"]

\* the except clause that ends the try block of a method
Except(of) == [op |-> "except", of |-> of]

OpAppend(pid, token) == [op |-> "append", pid |-> pid, token |-> token]
\* if pid in self.process_info:
OpScore(pid, delta) == [op |-> "score", pid |-> pid, delta |-> delta]
\* self.process_info[pid]['suspicious_score'] += delta
OpScoreAdd(pid, delta) == [op |-> "score_add", pid |-> pid, delta |-> delta]
OpStat(name) == [op |-> "stat", name |-> name]
\* the store of self.stats[name] += 1, the value loaded before
OpStatStore(name, value) == [op |-> "stat_store", name |-> name,
                             value |-> value]
OpCounter(pid, name) == [op |-> "counter", pid |-> pid, name |-> name]
\* line 864: the injection count is read again and compared
OpInjectionTest(pid) == [op |-> "injection_test", pid |-> pid]
OpRecord(pid, rec) == [op |-> "record", pid |-> pid, rec |-> rec]
OpTerminate(pid) == [op |-> "terminate", pid |-> pid]
OpTerminateInfo(pid) == [op |-> "terminate_info", pid |-> pid]
OpRaise(what, pid) == [op |-> "raise", what |-> what, pid |-> pid]
OpIndicators(pid, event_type, value) ==
    [op |-> "indicators", pid |-> pid, event_type |-> event_type,
     value |-> value]
OpAnalyze(pid) == [op |-> "analyze", pid |-> pid]
OpVerdict(pid, api_calls) ==
    [op |-> "verdict", pid |-> pid, api_calls |-> api_calls]
\* line 938: the stored score is read
OpThreat(pid, api_calls) ==
    [op |-> "threat", pid |-> pid, api_calls |-> api_calls]
OpFused(pid, threat_score, ml_result) ==
    [op |-> "fused", pid |-> pid, threat_score |-> threat_score,
     ml_result |-> ml_result]
OpDetection(pid, result) == [op |-> "detection", pid |-> pid,
                             result |-> result]
\* line 1107
OpDetected(pid, result) == [op |-> "detected", pid |-> pid,
                            result |-> result]
\* lines 1122, 1123-1129, 1132 and 1133
OpReport(pid, result) == [op |-> "report", pid |-> pid, result |-> result]
OpReportInfo(pid, result) == [op |-> "report_info", pid |-> pid,
                              result |-> result]
OpReportCounters(pid, result) == [op |-> "report_counters", pid |-> pid,
                                  result |-> result]
OpReportPatterns(pid, result) == [op |-> "report_patterns", pid |-> pid,
                                  result |-> result]
OpMitigation(pid, result) == [op |-> "mitigation", pid |-> pid,
                              result |-> result]
OpTrim(pid, api_calls) == [op |-> "trim", pid |-> pid,
                           api_calls |-> api_calls]

\* the outcome of an operation: the detector after it, and the operations it
\* puts in front of the rest of its thread
Done(s) == [s |-> s, push |-> <<>>]
Then(s, ops) == [s |-> s, push |-> ops]

\* a statement raises: s.exc is set until an except clause is reached; what
\* raised, and on behalf of which pid, is kept as history
Raise(s, what, pid) ==
    [s EXCEPT !.exc = TRUE, !.raised = Append(@, <<what, pid>>)]

\* the score delta opening a record for a pid that has none
add_score_creating(s, pid, delta) ==
    IF pid \in DOMAIN s.info
    THEN Then(s, <<OpScoreAdd(pid, delta)>>)
    ELSE Done([s EXCEPT !.info = (pid :> [image |-> "", cmdline |-> "",
                                           parent |-> "", process_name |-> "",
                                           suspicious_score |-> delta])
                                  @@ s.info])

\* if pid in self.process_info: the test on its own line; the addition is
\* the next statement
add_score(s, pid, delta) ==
    IF pid \in DOMAIN s.info
    THEN Then(s, <<OpScoreAdd(pid, delta)>>)
    ELSE Done(s)

\* self.process_info[pid]['suspicious_score'] += delta: KeyError when the
\* record was deleted after the test
score_add(s, pid, delta) ==
    IF pid \in DOMAIN s.info
    THEN [s EXCEPT !.info[pid].suspicious_score = @ + delta]
    ELSE Raise(s, "KeyError", pid)

------------------------------------------------------------------------------
(* Mitigation                                                              *)

DetectionsMaxLen == 1000

quarantine_enabled == TRUE
save_evidence_enabled == TRUE
alert_webhook == None

\* the mitigation switches of the default configuration
DefaultConfig == [save_evidence |-> save_evidence_enabled,
                  quarantine_enabled |-> quarantine_enabled,
                  alert_webhook |-> alert_webhook]

\* lines 1149-1159: the three mitigation calls, in sequence and unguarded.
\* The class defines none of the three methods: the first enabled switch
\* raises AttributeError on the lookup of its method, and nothing of the
\* mitigation happens
MitigationSteps(s, pid, result) ==
    IF s.config.save_evidence THEN Raise(s, "_save_evidence", pid)
    ELSE IF s.config.quarantine_enabled THEN Raise(s, "_quarantine_process", pid)
    ELSE IF Truthy(s.config.alert_webhook)
    THEN Raise(s, "_send_webhook_alert", pid)
    ELSE s

\* line 1122: if pid in self.process_info
detection_report(s, pid, result) ==
    Then(s, IF pid \in DOMAIN s.info THEN <<OpReportInfo(pid, result)>>
            ELSE <<OpReportCounters(pid, result)>>)

\* lines 1123-1129: the record is read for the log; the subscript raises
\* KeyError when the record was deleted after the test, and
\* info.get('cmdline', 'N/A')[:100] raises on a cmdline stored as None
report_info(s, pid, result) ==
    IF pid \notin DOMAIN s.info THEN Done(Raise(s, "KeyError", pid))
    ELSE IF s.info[pid].cmdline = None THEN Done(Raise(s, "cmdline", pid))
    ELSE Then(s, <<Yield, OpReportCounters(pid, result)>>)

\* line 1132: if pid in self.pattern_counters
report_counters(s, pid, result) ==
    Then(s, IF pid \in DOMAIN s.counters
            THEN <<OpReportPatterns(pid, result)>>
            ELSE <<Yield, OpMitigation(pid, result)>>)

\* line 1133: dict(self.pattern_counters[pid]) on the defaultdict
report_patterns(s, pid, result) ==
    Then(counters_touch(s, pid), <<Yield, OpMitigation(pid, result)>>)

\* line 1107: self.detections.append(result)
detection_append(s, pid, result) ==
    Then([s EXCEPT !.detections = deque_append(@, result, DetectionsMaxLen)],
         <<Yield, OpReport(pid, result)>>)

\* line 1106 of _handle_malware_detection: self.stats['malware_detected']
\* is loaded; both threads write it, and the store is a step of its own
handle_malware_detection(s, pid, result) ==
    Then(s, <<OpStatStore("malware_detected", s.stats.malware_detected + 1),
              OpDetected(pid, result)>>)

------------------------------------------------------------------------------
(* _analyze_process                                                        *)

\* what one call of _analyze_process did (history of the current step)
Logged(s, entry) == [s EXCEPT !.log = Append(@, entry)]

\* the call returned at line 1004: fewer than min_api_calls calls
NotRun(pid) == [pid |-> pid, ran |-> FALSE, threat_score |-> 0,
                ml_ok |-> FALSE, confidence |-> 0, adjusted_x200 |-> 0,
                is_malware |-> FALSE]

\* lines 1017-1028: the fused confidence and the final decision
fuse(ml_result, threat_score) ==
    ml_result @@ [threat_score |-> threat_score,
                  adjusted_x200 |-> ml_result.confidence + threat_score,
                  is_malware |-> decide_is_malware(ml_result.confidence,
                                                   threat_score,
                                                   DetectionThreshold)]

\* lines 1028-1037: the verdict is logged and a positive one handled; what
\* follows either way is the trim of lines 1039-1042
analyze_decided(s, pid, threat_score, ml_result, result) ==
    LET is_malware == ml_result.ok /\ result.is_malware
        s1 == Logged(s, [pid |-> pid, ran |-> TRUE,
                         threat_score |-> threat_score,
                         ml_ok |-> ml_result.ok,
                         confidence |-> IF ml_result.ok
                                        THEN ml_result.confidence ELSE 0,
                         adjusted_x200 |-> IF ml_result.ok
                                           THEN result.adjusted_x200 ELSE 0,
                         is_malware |-> is_malware])
    IN  Then(s1, IF is_malware THEN <<Yield, OpDetection(pid, result)>>
                 ELSE <<Yield>>)

\* lines 1017-1026: the classifier result, if any, fused with the threat
\* score
analyze_fused(s, pid, threat_score, ml_result) ==
    analyze_decided(s, pid, threat_score, ml_result,
                    IF ml_result.ok THEN fuse(ml_result, threat_score)
                    ELSE ml_result)

\* lines 938-1014: the stored score is read and the threat score computed,
\* then the prediction; when the record was deleted after the test of line
\* 937 the subscript raises KeyError and the handler of lines 967-969
\* returns 0
analyze_threat(s, pid, api_calls) ==
    Then(s, <<OpFused(pid,
                      IF pid \in DOMAIN s.info
                      THEN calculate_threat_score(s, pid, api_calls) ELSE 0,
                      predict(s.model, api_calls, pid))>>)

\* lines 1011 and 937: _calculate_threat_score tests whether the pid has a
\* record; without one the score is that of the snapshot alone
analyze_verdict(s, pid, api_calls) ==
    IF pid \in DOMAIN s.info THEN Then(s, <<OpThreat(pid, api_calls)>>)
    ELSE Then(s, <<OpFused(pid, calculate_threat_score(s, pid, api_calls),
                           predict(s.model, api_calls, pid))>>)

\* the trim keeping the 50 most recent calls of the snapshot newest first
analyze_trim_newest_first(s, pid, api_calls) ==
    IF Len(api_calls) > TrimAbove
    THEN calls_assign(s, pid,
                      [i \in 1..TrimKeep |-> api_calls[Len(api_calls) + 1 - i]])
    ELSE s

\* the trim keeping the 50 oldest calls of the snapshot
analyze_trim_oldest(s, pid, api_calls) ==
    IF Len(api_calls) > TrimAbove
    THEN calls_assign(s, pid, SubSeq(api_calls, 1, TrimKeep))
    ELSE s

\* lines 1039-1042: keep the last 50 calls of a snapshot longer than 100
analyze_trim(s, pid, api_calls) ==
    IF Len(api_calls) > TrimAbove
    THEN calls_assign(s, pid,
                      SubSeq(api_calls, Len(api_calls) - TrimKeep + 1,
                             Len(api_calls)))
    ELSE s

\* _analyze_process letting an exception of the analysis out to its caller
analyze_reraise(s) == s

\* lines 1045-1046: the handler of _analyze_process logs and returns
analyze_except(s) == [s EXCEPT !.exc = FALSE]

\* lines 1002-1008: the snapshot list(self.process_api_calls[pid]) on the
\* defaultdict and the test of its length; the rest of the body follows
\* inside the try block
analyze_snapshot(s0, pid, api_calls) ==
    IF Len(api_calls) < MinApiCalls
    THEN Then(Logged(s0, NotRun(pid)), <<Yield>>)
    ELSE Then(s0, <<Yield, OpVerdict(pid, api_calls),
                    OpTrim(pid, api_calls), Except("analyze")>>)

\* _analyze_process, line 1002: the snapshot is taken on the defaultdict
analyze_process(s, pid) ==
    LET s0 == calls_touch(s, pid)
    IN  analyze_snapshot(s0, pid, s0.calls[pid])

------------------------------------------------------------------------------
(* Heuristic indicator checks                                              *)

suspicious_commands == {"powershell", "cmd", "wscript", "cscript",
                        "regsvr32", "rundll32"}

ai_domains == {"openai.com", "api.openai.com", "chat.openai.com",
               "anthropic.com", "api.anthropic.com", "googleapis.com",
               "api.google.com", "azure.com", "api.azure.com",
               "huggingface.co", "api.huggingface.co"}

persistence_keys == {"run", "runonce", "services", "currentversion\\run",
                     "currentversion\\runonce", "winlogon", "userinit"}

\* the tail of _check_polymorphic_indicators (lines 888-893)
polymorphic_hit(pid) ==
    <<OpStat("polymorphic_detected"), OpScore(pid, PolymorphicDelta),
      OpAnalyze(pid)>>

\* line 864: self.pattern_counters[pid]['injection'] is read again, on the
\* defaultdict, and compared with the threshold
injection_test(s, pid) ==
    LET s0 == counters_touch(s, pid)
    IN  IF s0.counters[pid].injection >= InjectionThreshold
        THEN Then(s0, <<Yield>> \o polymorphic_hit(pid))
        ELSE Done(s0)

\* _check_polymorphic_indicators: lines 856-857 and the statements that
\* follow for the kind of event; a None where the code calls .lower()
\* raises inside its try block
check_polymorphic_indicators(s, pid, event_type, value) ==
    LET s0 == counters_touch(s, pid)
    IN  CASE event_type = "injection" ->
               Then(s0, <<OpCounter(pid, "injection"), OpInjectionTest(pid)>>)
          [] event_type = "network" ->
               Then(s0, <<OpCounter(pid, "network")>>
                        \o (IF value = None THEN <<OpRaise("lower", pid)>>
                            ELSE IF \E k \in ai_keywords :
                                        ContainsLower(value, k)
                            THEN <<OpCounter(pid, "ai_communication"),
                                   OpStat("ai_communications"), Yield>>
                                 \o polymorphic_hit(pid)
                            ELSE <<>>))
          [] event_type = "process_create" ->
               IF value = None THEN Done(Raise(s0, "lower", pid))
               ELSE IF \E c \in suspicious_commands : ContainsLower(value, c)
               THEN Then(s0, <<OpCounter(pid, "suspicious_commands")>>)
               ELSE Done(s0)
          [] OTHER -> Done(s0)

\* a call of _check_polymorphic_indicators: its body and its except clause
\* (lines 895-896)
call_polymorphic_indicators(pid, event_type, value) ==
    <<OpIndicators(pid, event_type, value), Except("indicators")>>

\* _check_ai_communication
check_ai_communication(pid, hostname, ip, port) ==
    (IF /\ Truthy(hostname)
        /\ \E dom \in ai_domains : ContainsLower(hostname, dom)
     THEN <<Yield, OpStat("ai_communications"), OpScore(pid, AiDomainDelta),
            OpAnalyze(pid)>>
     ELSE <<>>)
    \o (IF port \in api_ports THEN <<OpCounter(pid, "api_calls")>> ELSE <<>>)
    \o <<Except("ai_communication")>>

------------------------------------------------------------------------------
(* Event handlers: the operations of each handler on its event_data        *)

\* p.lower() for the names of the configured lists
LowerName(p) == IF p = "System" THEN "system" ELSE p

process_name_of(image) == IF Truthy(image) THEN PathNameLower(image) ELSE ""

\* the ProcessCreate handler that starts the pid afresh: what was kept for
\* the pid is dropped before the new record is written
handle_process_create_afresh(d) ==
    LET pid == Get(d, "ProcessId", None)
        image == Get(d, "Image", "")
        cmdline == Get(d, "CommandLine", "")
        process_name == process_name_of(image)
        rec == [image |-> image, cmdline |-> cmdline,
                parent |-> Get(d, "ParentImage", ""),
                process_name |-> process_name, suspicious_score |-> 0]
    IN  IF ~Truthy(pid) THEN <<>>
        ELSE IF process_name \in {LowerName(p) : p \in whitelist_processes}
        THEN <<>>
        ELSE <<OpTerminate(pid), OpRecord(pid, rec),
               OpAppend(pid, "CreateProcess")>>
             \o call_polymorphic_indicators(pid, "process_create", cmdline)
             \o <<OpStat("processes_monitored")>>

\* _handle_process_create, lines 528-569
handle_process_create(d) ==
    LET pid == Get(d, "ProcessId", None)
        image == Get(d, "Image", "")
        cmdline == Get(d, "CommandLine", "")
        process_name == process_name_of(image)
        rec == [image |-> image, cmdline |-> cmdline,
                parent |-> Get(d, "ParentImage", ""),
                process_name |-> process_name, suspicious_score |-> 0]
    IN  IF ~Truthy(pid) THEN <<>>
        ELSE IF process_name \in {LowerName(p) : p \in whitelist_processes}
        THEN <<>>
        ELSE <<OpRecord(pid, rec), OpAppend(pid, "CreateProcess")>>
             \o call_polymorphic_indicators(pid, "process_create", cmdline)
             \o <<OpStat("processes_monitored")>>

handle_network_connect(d) ==
    LET pid == Get(d, "ProcessId", None)
        dest_ip == Get(d, "DestinationIp", "")
        dest_port == Get(d, "DestinationPort", "")
        dest_hostname == Get(d, "DestinationHostname", "")
        api_call == IF Truthy(dest_hostname)
                    THEN "connect:" \o dest_hostname \o ":" \o Str(dest_port)
                    ELSE IF Truthy(dest_ip)
                    THEN "connect:" \o dest_ip \o ":" \o Str(dest_port)
                    ELSE "connect"
        destination == IF Truthy(dest_hostname) THEN dest_hostname
                       ELSE dest_ip
    IN  IF ~Truthy(pid) THEN <<>>
        ELSE <<OpAppend(pid, api_call)>>
             \o check_ai_communication(pid, dest_hostname, dest_ip, dest_port)
             \o call_polymorphic_indicators(pid, "network", destination)

\* _handle_create_remote_thread, lines 604-633
handle_create_remote_thread(d) ==
    LET source_pid == Get(d, "SourceProcessId", None)
    IN  IF ~Truthy(source_pid) THEN <<>>
        ELSE <<OpAppend(source_pid, "CreateRemoteThread"),
               OpScore(source_pid, InjectionDelta),
               OpStat("memory_injections"),
               Yield,
               OpAnalyze(source_pid)>>
             \o call_polymorphic_indicators(source_pid, "injection", None)

handle_process_access(d) ==
    LET source_pid == Get(d, "SourceProcessId", None)
        target_image == Get(d, "TargetImage", "")
        target_name == process_name_of(target_image)
    IN  IF ~Truthy(source_pid) THEN <<>>
        ELSE IF target_name \in {LowerName(p) : p \in critical_processes}
        THEN <<OpAppend(source_pid, "OpenProcess:" \o target_name),
               OpScore(source_pid, CriticalAccessDelta),
               OpAnalyze(source_pid)>>
        ELSE <<OpAppend(source_pid, "OpenProcess")>>

\* the file-create handler without the test of the pid
handle_file_create_unguarded(d) ==
    LET pid == Get(d, "ProcessId", None)
        filename == Get(d, "TargetFilename", "")
    IN  IF ~Truthy(filename) THEN <<>>
        ELSE <<OpAppend(pid, "CreateFile")>>

handle_file_create(d) ==
    LET pid == Get(d, "ProcessId", None)
        filename == Get(d, "TargetFilename", "")
        file_ext == PathSuffixLower(filename)
        file_dir == PathParentLower(filename)
    IN  IF ~Truthy(pid) \/ ~Truthy(filename) THEN <<>>
        ELSE (IF file_ext \in suspicious_extensions
              THEN <<OpAppend(pid, "CreateFile:" \o file_ext),
                     OpScore(pid, FileExtDelta)>>
              ELSE <<OpAppend(pid, "CreateFile")>>)
             \o (IF \E sus \in suspicious_directories :
                        ContainsLower(file_dir, sus)
                 THEN <<Yield, OpScore(pid, FileDirDelta)>>
                 ELSE <<>>)

\* _handle_registry_event; target_object.lower() (line 711) raises on a
\* TargetObject that is None, after the append
handle_registry_event(d) ==
    LET pid == Get(d, "ProcessId", None)
        target_object == Get(d, "TargetObject", "")
    IN  IF ~Truthy(pid) THEN <<>>
        ELSE <<OpAppend(pid, "RegSetValue")>>
             \o (IF target_object = None THEN <<OpRaise("lower", pid)>>
                 ELSE IF \E k \in persistence_keys :
                             ContainsLower(target_object, k)
                 THEN <<Yield, OpScore(pid, RegistryDelta)>>
                 ELSE <<>>)

handle_image_load(d) ==
    LET pid == Get(d, "ProcessId", None)
        image_loaded == Get(d, "ImageLoaded", "")
    IN  IF Truthy(pid) /\ Truthy(image_loaded)
        THEN <<OpAppend(pid, "LoadLibrary:" \o PathNameLower(image_loaded))>>
        ELSE <<>>

\* lines 744-745: the buffer of the pid is deleted; the record is next
process_terminate(s, pid) ==
    Then(IF pid \in DOMAIN s.calls THEN calls_delete(s, pid) ELSE s,
         <<OpTerminateInfo(pid)>>)

\* lines 746-747
process_terminate_info(s, pid) ==
    IF pid \in DOMAIN s.info
    THEN [s EXCEPT !.info = RemoveKey(s.info, pid)]
    ELSE s

handle_process_terminate(d) ==
    LET pid == Get(d, "ProcessId", None)
    IN  IF ~Truthy(pid) THEN <<>> ELSE <<OpTerminate(pid)>>

handle_dns_query(d) ==
    LET pid == Get(d, "ProcessId", None)
        query_name == Get(d, "QueryName", "")
    IN  IF ~Truthy(pid) THEN <<>>
        ELSE <<OpAppend(pid, "DNSQuery:" \o Str(query_name))>>
             \o check_ai_communication(pid, query_name, "", "")

handle_process_tampering(d) ==
    LET pid == Get(d, "ProcessId", None)
    IN  IF ~Truthy(pid) THEN <<>>
        ELSE <<OpAppend(pid, "ProcessTampering"), OpScore(pid, TamperDelta)>>

handle_pipe_create(d) ==
    LET pid == Get(d, "ProcessId", None)
    IN  IF ~Truthy(pid) THEN <<>>
        ELSE <<OpAppend(pid, "CreatePipe:" \o Str(Get(d, "PipeName", "")))>>

\* the handlers that only append a fixed token for a known pid
simple_token(id) ==
    CASE id = 2 -> "SetFileTime"
      [] id = 9 -> "RawDiskAccess"
      [] id = 15 -> "CreateFileStream"
      [] id = 18 -> "ConnectPipe"
      [] id \in {19, 20, 21} -> "WMIEvent"
      [] id = 23 -> "DeleteFile"
      [] id = 24 -> "ClipboardAccess"
      [] id = 26 -> "FileDeleteLogged"
      [] id = 27 -> "FileBlocked"
      [] id = 28 -> "FileShredding"
      [] id = 29 -> "ExecutableDetected"

handle_simple(d, id) ==
    LET pid == Get(d, "ProcessId", None)
    IN  IF Truthy(pid) THEN <<OpAppend(pid, simple_token(id))>> ELSE <<>>

\* self.event_handlers.get(event_id), called with the event_data
event_handlers(d, id) ==
    CASE id = 1 -> handle_process_create(d)
      [] id = 3 -> handle_network_connect(d)
      [] id = 5 -> handle_process_terminate(d)
      [] id = 7 -> handle_image_load(d)
      [] id = 8 -> handle_create_remote_thread(d)
      [] id = 10 -> handle_process_access(d)
      [] id = 11 -> handle_file_create(d)
      [] id \in {12, 13, 14} -> handle_registry_event(d)
      [] id = 17 -> handle_pipe_create(d)
      [] id = 22 -> handle_dns_query(d)
      [] id = 25 -> handle_process_tampering(d)
      [] id \in {4, 6, 16} -> <<>>
      [] id \in {2, 9, 15, 18, 19, 20, 21, 23, 24, 26, 27, 28, 29} ->
             handle_simple(d, id)
      [] OTHER -> <<>>

\* _process_sysmon_event: the handler of the event inside the try block of
\* lines 424-455
process_sysmon_event(event) ==
    LET id == event_id_of(event)
        d == parse_event_xml(event)
    IN  IF id \notin sysmon_events THEN <<>>
        ELSE IF DOMAIN d = {} THEN <<>>
        ELSE event_handlers(d, id) \o <<Yield, Except("event")>>

\* one iteration of the loop of _process_event_batch, lines 416-418
process_event(event) ==
    process_sysmon_event(event) \o <<OpStat("events_processed")>>

------------------------------------------------------------------------------
(* Execution                                                               *)

\* one operation on the detector
Exec(s, o) ==
    CASE o.op = "append" -> Done(calls_append(s, o.pid, o.token))
      [] o.op = "score" -> add_score(s, o.pid, o.delta)
      [] o.op = "score_add" -> Done(score_add(s, o.pid, o.delta))
      [] o.op = "stat" -> Done(stat_inc(s, o.name))
      [] o.op = "stat_store" ->
             Done([s EXCEPT !.stats[o.name] = o.value])
      [] o.op = "injection_test" -> injection_test(s, o.pid)
      [] o.op = "counter" -> Done(counters_inc(s, o.pid, o.name))
      [] o.op = "record" ->
             Done([s EXCEPT !.info = (o.pid :> o.rec) @@ s.info])
      [] o.op = "terminate" -> process_terminate(s, o.pid)
      [] o.op = "terminate_info" ->
             Done(process_terminate_info(s, o.pid))
      [] o.op = "raise" -> Done(Raise(s, o.what, o.pid))
      [] o.op = "indicators" ->
             check_polymorphic_indicators(s, o.pid, o.event_type, o.value)
      [] o.op = "analyze" -> analyze_process(s, o.pid)
      [] o.op = "verdict" -> analyze_verdict(s, o.pid, o.api_calls)
      [] o.op = "threat" -> analyze_threat(s, o.pid, o.api_calls)
      [] o.op = "fused" ->
             analyze_fused(s, o.pid, o.threat_score, o.ml_result)
      [] o.op = "detection" -> handle_malware_detection(s, o.pid, o.result)
      [] o.op = "detected" -> detection_append(s, o.pid, o.result)
      [] o.op = "report" -> detection_report(s, o.pid, o.result)
      [] o.op = "report_info" -> report_info(s, o.pid, o.result)
      [] o.op = "report_counters" -> report_counters(s, o.pid, o.result)
      [] o.op = "report_patterns" -> report_patterns(s, o.pid, o.result)
      [] o.op = "mitigation" -> Done(MitigationSteps(s, o.pid, o.result))
      [] o.op = "trim" -> Done(analyze_trim(s, o.pid, o.api_calls))

\* an exception reaches an except clause: the clause logs and its method
\* returns normally
Caught(s, o) ==
    IF o.of = "analyze" THEN analyze_except(s) ELSE [s EXCEPT !.exc = FALSE]

\* the operations that touch nothing the threads share: the fusion of two
\* local values, a raising statement, the lookup of a mitigation method
Local(o) == o.op \in {"fused", "raise", "mitigation"}

\* where a thread resumes: the logging calls and the except clauses it does
\* not enter change nothing
RECURSIVE Resume(_)
Resume(k) ==
    IF k = <<>> THEN k
    ELSE IF Head(k).op \in {"yield", "except"} THEN Resume(Tail(k))
    ELSE k

\* what a thread does without touching what the threads share: a pending
\* exception skips the operations up to the next except clause, which is
\* entered; logging calls and except clauses that are not entered are
\* passed; local operations are run
RECURSIVE Settle(_, _)
Settle(s, k) ==
    IF k = <<>> THEN [s |-> s, k |-> k]
    ELSE IF s.exc
    THEN IF Head(k).op = "except" THEN Settle(Caught(s, Head(k)), Tail(k))
         ELSE Settle(s, Tail(k))
    ELSE IF Head(k).op \in {"yield", "except"} THEN Settle(s, Tail(k))
    ELSE IF Local(Head(k))
    THEN LET e == Exec(s, Head(k)) IN Settle(e.s, e.push \o Tail(k))
    ELSE [s |-> s, k |-> k]

\* the next operation of k, with the local operations that follow it: the
\* detector after them and what the thread has left to do
RunSegment(s, k) ==
    LET todo == Resume(k)
    IN  IF todo = <<>> THEN [s |-> s, k |-> todo]
        ELSE LET e == Exec(s, Head(todo))
             IN  Settle(e.s, e.push \o Tail(todo))

\* the operations of k with no other thread in between
RECURSIVE Run(_, _)
Run(s, k) ==
    CHOOSE s2 \in {IF r.k = <<>> THEN r.s ELSE Run(r.s, r.k) :
                      r \in {RunSegment(s, k)}} : TRUE

------------------------------------------------------------------------------
(* The engine: start(), the monitor thread, the analysis thread, stop()    *)

VARIABLES
    process_api_calls,    \* pid -> deque of API-call tokens (present keys)
    api_keys,             \* the keys of process_api_calls in insertion order
    process_info,         \* pid -> metadata record (present keys)
    pattern_counters,     \* pid -> pattern counters (present keys)
    stats,
    detections,
    model,                \* the loaded classification pipeline
    running,
    event_source,         \* the lists of raw events a ReadEventLog call can
                          \* return
    reads_left,           \* number of reads the log still answers with events
    ingested,             \* number of events appended to events_batch so far
    task,                 \* the event in hand, what is left to do, history
    step,                 \* history: what the last step did
    sweep_pc,             \* position of the analysis thread
    sweep_pids,           \* pids the current pass has still to visit
    sweep_pid,            \* pid being analysed by the analysis thread
    sweep_k,              \* what is left of its _analyze_process call
    sweeps,               \* number of finished passes
    d_in,                 \* inputs of the fusion decision under test
    d_out,                \* its result
    config,               \* self.config: the mitigation switches
    mon_pc,               \* position of the monitor thread
    mon_events,           \* events of the last read still to be iterated
    events_batch,         \* its events_batch local
    mon_flush,            \* events _process_event_batch has still to take
    mon_late,             \* more than a second since last_batch_time
    token_log,            \* history: pid -> every token ingested for it
    removed               \* history: pids removed from the store for which
                          \* no event has been taken since

detector_vars == <<process_api_calls, api_keys, process_info,
                   pattern_counters, stats, detections>>
sweep_vars == <<sweep_pc, sweep_pids, sweep_pid, sweep_k, sweeps>>
decide_vars == <<d_in, d_out>>
loaded_vars == <<model, config>>
monitor_vars == <<mon_pc, mon_events, events_batch, mon_flush, mon_late>>
log_vars == <<event_source, reads_left>>
history_vars == <<token_log, removed>>
vars == <<detector_vars, loaded_vars, running, log_vars, ingested,
          task, step, sweep_vars, decide_vars, monitor_vars, history_vars>>

\* the detector object as a thread sees it when it is scheduled
Self ==
    [calls |-> process_api_calls, keys |-> api_keys, info |-> process_info,
     counters |-> pattern_counters, stats |-> stats,
     detections |-> detections, model |-> model, config |-> config,
     exc |-> FALSE, raised |-> <<>>, log |-> <<>>, appended |-> <<>>]

Commit(s) ==
    /\ process_api_calls' = s.calls
    /\ api_keys' = s.keys
    /\ process_info' = s.info
    /\ pattern_counters' = s.counters
    /\ stats' = s.stats
    /\ detections' = s.detections

\* the pids whose buffer and record a step removed
Evicted(s) ==
    {p \in (DOMAIN process_api_calls) \cup (DOMAIN process_info) :
        p \notin (DOMAIN s.calls) \cup (DOMAIN s.info)}

\* the tokens among appended that went to the buffer of pid, in order
TokensFor(appended, pid) ==
    LET mine == SelectSeq(appended, LAMBDA x : x[1] = pid)
    IN  [i \in 1..Len(mine) |-> mine[i][2]]

\* the history of ingested tokens after the appends of a step
Ingested(log, appended) ==
    [pid \in (DOMAIN log) \cup {appended[i][1] : i \in DOMAIN appended} |->
        (IF pid \in DOMAIN log THEN log[pid] ELSE <<>>)
            \o TokensFor(appended, pid)]

P1 == "4242"
P2 == "10"

EvCreate(pid, image, cmdline) ==
    [EventID |-> 1,
     StringInserts |-> Inserts(14, (3 :> pid) @@ (4 :> image)
                                   @@ (10 :> cmdline)
                                   @@ (13 :> NotepadImage))]
EvCreateShort(pid, image) ==
    [EventID |-> 1,
     StringInserts |-> Inserts(5, (3 :> pid) @@ (4 :> image))]
EvNet(pid, image, ip, port) ==
    [EventID |-> 3,
     StringInserts |-> Inserts(17, (3 :> pid) @@ (4 :> image) @@ (14 :> ip)
                                   @@ (16 :> port))]
EvImageLoad(pid, image, dll) ==
    [EventID |-> 7,
     StringInserts |-> Inserts(6, (3 :> pid) @@ (4 :> image) @@ (5 :> dll))]
EvThread(pid, image, target) ==
    [EventID |-> 8,
     StringInserts |-> Inserts(7, (3 :> pid) @@ (4 :> image)
                                  @@ (6 :> target))]
EvAccess(pid, image, target_image) ==
    [EventID |-> 10,
     StringInserts |-> Inserts(8, (3 :> pid) @@ (4 :> image)
                                  @@ (7 :> target_image))]
EvFile(pid, image, filename) ==
    [EventID |-> 11,
     StringInserts |-> Inserts(6, (3 :> pid) @@ (4 :> image)
                                  @@ (5 :> filename))]
EvOther(id, pid) ==
    [EventID |-> id, StringInserts |-> Inserts(4, (3 :> pid))]
\* the same event with severity bits set above the 16-bit event id
WithSeverity(ev) == [ev EXCEPT !.EventID = @ + 2 * EventIdMask]

EngineEvents ==
    {EvCreate(P1, AppImage, "app.exe --run"),
     EvThread(P1, AppImage, P2),
     WithSeverity(EvAccess(P1, AppImage, LsassImage))}

Stubs ==
    {[raises |-> FALSE, label |-> "Trojan", confidence |-> 60],
     [raises |-> TRUE, label |-> None, confidence |-> 0]}

NoStats == [events_processed |-> 0, processes_monitored |-> 0,
            malware_detected |-> 0, quarantined |-> 0,
            polymorphic_detected |-> 0, memory_injections |-> 0,
            ai_communications |-> 0]

NoEvent == [EventID |-> 0, StringInserts |-> <<>>]
NoTask == [thread |-> "none", event |-> NoEvent, k |-> <<>>, log |-> <<>>,
           appended |-> <<>>, raised |-> <<>>, before |-> <<>>]
NoStep == [thread |-> "none", event |-> NoEvent, log |-> <<>>,
           appended |-> <<>>, evicted |-> {}, raised |-> <<>>,
           exc |-> FALSE, done |-> TRUE]
NoDecision == [label |-> None, confidence |-> 0, threat_score |-> 0]

\* the collections after __init__
InitCollections ==
    /\ process_api_calls = <<>>
    /\ api_keys = <<>>
    /\ process_info = <<>>
    /\ pattern_counters = <<>>
    /\ stats = NoStats
    /\ detections = <<>>
    /\ token_log = <<>>
    /\ removed = {}

\* no thread is inside a call
Quiescent ==
    /\ ingested = 0
    /\ task = NoTask
    /\ step = NoStep
    /\ sweep_pids = <<>>
    /\ sweep_pid = None
    /\ sweep_k = <<>>
    /\ sweeps = 0

\* __init__: running is False, no thread exists and the monitor thread has
\* its locals of lines 360-361
InitDetector ==
    /\ InitCollections
    /\ Quiescent
    /\ running = FALSE
    /\ sweep_pc = "off"
    /\ mon_pc = "unstarted"
    /\ mon_events = <<>>
    /\ events_batch = <<>>
    /\ mon_flush = <<>>
    /\ mon_late = FALSE

\* _load_config without a configuration file
DefaultLoaded == config = DefaultConfig

\* the reads that return one event of a set
Singles(events) == {<<e>> : e \in events}

Init ==
    /\ InitDetector
    /\ DefaultLoaded
    /\ model \in Stubs
    /\ event_source = Singles(EngineEvents)
    /\ reads_left = MaxEvents
    /\ d_in = NoDecision
    /\ d_out = "none"

\* start(), lines 275-295: without the Sysmon log it returns with running
\* still False; with it, running is set and the two threads are launched
Start ==
    /\ ~running
    /\ sweep_pc = "off"
    /\ \E sysmon_ok \in BOOLEAN :
         /\ running' = sysmon_ok
         /\ sweep_pc' = IF sysmon_ok THEN "idle" ELSE sweep_pc
         /\ mon_pc' = IF sysmon_ok THEN "start" ELSE mon_pc
         /\ step' = [NoStep EXCEPT !.thread = "main",
                                   !.event = [sysmon_ok |-> sysmon_ok]]
    /\ UNCHANGED <<detector_vars, loaded_vars, log_vars, ingested, task,
                   sweep_pids, sweep_pid, sweep_k, sweeps, decide_vars,
                   mon_events, events_batch, mon_flush, mon_late,
                   history_vars>>

\* the step of a thread that ran one operation, r.s the detector after it
StepOf(thread, event, r) ==
    [thread |-> thread, event |-> event, log |-> r.s.log,
     appended |-> r.s.appended, evicted |-> Evicted(r.s),
     raised |-> r.s.raised, exc |-> r.s.exc, done |-> r.k = <<>>]

\* batch_size
BatchSize == 50

\* lines 345-351: OpenEventLog returns a handle, or raises into the outer
\* handler of lines 410-411, after which the function returns
MonOpen ==
    /\ mon_pc = "start"
    /\ \E opened \in BOOLEAN :
         mon_pc' = IF opened THEN "while" ELSE "exited"
    /\ step' = [NoStep EXCEPT !.thread = "monitor"]
    /\ UNCHANGED <<detector_vars, loaded_vars, running, log_vars,
                   ingested, task, sweep_vars, decide_vars, mon_events,
                   events_batch, mon_flush, mon_late, history_vars>>

\* line 364: while self.running
MonWhile ==
    /\ mon_pc = "while"
    /\ mon_pc' = IF running THEN "read" ELSE "exited"
    /\ step' = [NoStep EXCEPT !.thread = "monitor"]
    /\ UNCHANGED <<detector_vars, loaded_vars, running, log_vars,
                   ingested, task, sweep_vars, decide_vars, mon_events,
                   events_batch, mon_flush, mon_late, history_vars>>

\* lines 367-374 and 393-396: ReadEventLog raises (lines 405-408), returns
\* nothing (a batch that is not empty is handed to _process_event_batch) or
\* returns events, and then the clock read at line 374 may have passed
\* last_batch_time by more than a second
MonRead ==
    /\ mon_pc = "read"
    /\ \E late \in (IF mon_late THEN {TRUE} ELSE BOOLEAN) :
       \E raised \in BOOLEAN :
       \E events \in event_source \cup {<<>>} :
         /\ raised => events = <<>>
         /\ events # <<>> => reads_left > 0
         /\ reads_left' = IF events # <<>> THEN reads_left - 1
                          ELSE reads_left
         /\ (raised \/ events = <<>>) => late = mon_late
         /\ mon_late' = late
         /\ mon_events' = IF raised THEN mon_events ELSE events
         /\ mon_pc' = IF raised THEN "while"
                      ELSE IF events # <<>> THEN "for"
                      ELSE IF events_batch # <<>> THEN "flush_empty"
                      ELSE "sleep"
         /\ mon_flush' = IF ~raised /\ events = <<>> THEN events_batch
                         ELSE mon_flush
    /\ step' = [NoStep EXCEPT !.thread = "monitor"]
    /\ UNCHANGED <<detector_vars, loaded_vars, running, event_source,
                   ingested, task, sweep_vars, decide_vars, events_batch,
                   history_vars>>

\* lines 376-386: one iteration of the for loop over the events read, up to
\* the call of _process_event_batch
MonEvent ==
    /\ mon_pc = "for"
    /\ IF mon_events = <<>> \/ ~running
       THEN \* the loop is over, or left by the break of line 378
            /\ mon_events' = <<>>
            /\ mon_pc' = "sleep"
            /\ UNCHANGED <<events_batch, mon_flush, ingested>>
       ELSE LET batch == Append(events_batch, Head(mon_events))
                flush == Len(batch) >= BatchSize \/ mon_late
            IN  /\ mon_events' = Tail(mon_events)
                /\ events_batch' = batch
                /\ ingested' = ingested + 1
                /\ mon_pc' = IF flush THEN "flush_for" ELSE "for"
                /\ mon_flush' = IF flush THEN batch ELSE mon_flush
    /\ step' = [NoStep EXCEPT !.thread = "monitor"]
    /\ UNCHANGED <<detector_vars, loaded_vars, running, log_vars, task,
                   sweep_vars, decide_vars, mon_late, history_vars>>

\* the image and the pid a raw event names for its process
EventImage(event) ==
    LET d == parse_event_xml(event)
    IN  IF "Image" \in DOMAIN d THEN d.Image
        ELSE IF "SourceImage" \in DOMAIN d THEN d.SourceImage
        ELSE None

EventPid(event) ==
    LET d == parse_event_xml(event)
    IN  IF "ProcessId" \in DOMAIN d THEN d.ProcessId
        ELSE IF "SourceProcessId" \in DOMAIN d THEN d.SourceProcessId
        ELSE None

\* _process_event_batch, lines 415-417: the loop takes the next event of the
\* batch and enters _process_sysmon_event, which Handle runs statement by
\* statement; after the last event the caller clears the
\* batch (lines 387-388, 397).  Nothing here reads self.running
MonFlush ==
    /\ mon_pc \in {"flush_for", "flush_empty"}
    /\ task.k = <<>>
    /\ IF mon_flush = <<>>
       THEN /\ events_batch' = <<>>
            /\ mon_late' = IF mon_pc = "flush_for" THEN FALSE ELSE mon_late
            /\ mon_pc' = IF mon_pc = "flush_for" THEN "for" ELSE "sleep"
            /\ step' = [NoStep EXCEPT !.thread = "monitor"]
            /\ UNCHANGED <<task, mon_flush, removed>>
       ELSE /\ task' = [NoTask EXCEPT
                           !.thread = "ingest", !.event = Head(mon_flush),
                           !.k = Resume(process_event(Head(mon_flush))),
                           !.before = process_info]
            /\ mon_flush' = Tail(mon_flush)
            /\ removed' = removed \ {EventPid(Head(mon_flush))}
            /\ step' = [NoStep EXCEPT !.thread = "pull",
                                      !.event = Head(mon_flush),
                                      !.done = FALSE]
            /\ UNCHANGED <<mon_pc, events_batch, mon_late>>
    /\ UNCHANGED <<detector_vars, loaded_vars, running, log_vars,
                   ingested, sweep_vars, decide_vars, mon_events,
                   token_log>>

\* the thread handling an event runs its next statement; nothing in
\* _process_event_batch or below reads self.running
Handle ==
    /\ task.k # <<>>
    /\ \E r \in {RunSegment(Self, task.k)} :
         /\ Commit(r.s)
         /\ task' = [task EXCEPT !.k = r.k,
                                 !.log = @ \o r.s.log,
                                 !.appended = @ \o r.s.appended,
                                 !.raised = @ \o r.s.raised]
         /\ step' = StepOf(task.thread, task.event, r)
         /\ removed' = removed \cup Evicted(r.s)
    /\ UNCHANGED <<loaded_vars, running, log_vars, ingested,
                   sweep_vars, decide_vars, monitor_vars>>
    /\ token_log' = Ingested(token_log, step'.appended)

\* lines 399-403: the delay at the end of an iteration of the while loop
MonSleep ==
    /\ mon_pc = "sleep"
    /\ mon_pc' = "while"
    /\ step' = [NoStep EXCEPT !.thread = "monitor"]
    /\ UNCHANGED <<detector_vars, loaded_vars, running, log_vars,
                   ingested, task, sweep_vars, decide_vars, mon_events,
                   events_batch, mon_flush, mon_late, history_vars>>

\* _periodic_analysis, lines 972-974: while self.running, up to the logging
\* call that opens a pass; with running False the thread returns
SweepStart ==
    /\ sweep_pc = "idle"
    /\ running => sweeps < MaxSweeps
    /\ sweep_pc' = IF running THEN "list" ELSE "exited"
    /\ step' = [NoStep EXCEPT !.thread = "sweep"]
    /\ UNCHANGED <<detector_vars, loaded_vars, running, log_vars,
                   ingested, task, sweep_pids, sweep_pid, sweep_k, sweeps,
                   decide_vars, monitor_vars, history_vars>>

\* _periodic_analysis, line 978: list(self.process_api_calls.keys())
SweepList ==
    /\ sweep_pc = "list"
    /\ sweep_pc' = "scan"
    /\ sweep_pids' = api_keys
    /\ step' = [NoStep EXCEPT !.thread = "sweep"]
    /\ UNCHANGED <<detector_vars, loaded_vars, running, log_vars,
                   ingested, task, sweep_pid, sweep_k, sweeps, decide_vars,
                   monitor_vars, history_vars>>

\* _periodic_analysis, lines 978-990: the next pid of the pass and the test
\* of its snapshot; after the last pid the cleanup, when the clock says it
\* is due
SweepScan ==
    /\ sweep_pc = "scan"
    /\ IF sweep_pids = <<>>
       THEN \E due \in BOOLEAN :
              /\ sweep_pc' = IF due THEN "cleanup" ELSE "idle"
              /\ sweep_pids' = IF due THEN api_keys ELSE <<>>
              /\ sweeps' = IF due THEN sweeps ELSE sweeps + 1
              /\ UNCHANGED <<detector_vars, sweep_pid, sweep_k>>
       ELSE LET pid == Head(sweep_pids)
                s == calls_touch(Self, pid)
                long == Len(s.calls[pid]) >= MinApiCalls
            IN  /\ Commit(s)
                /\ sweep_pids' = Tail(sweep_pids)
                /\ sweep_pid' = pid
                /\ sweep_pc' = IF long THEN "analyze" ELSE "scan"
                /\ sweep_k' = IF long THEN <<OpAnalyze(pid)>> ELSE <<>>
                /\ sweeps' = sweeps
    /\ step' = [NoStep EXCEPT !.thread = "sweep"]
    /\ UNCHANGED <<loaded_vars, running, log_vars, ingested, task,
                   decide_vars, monitor_vars, history_vars>>

\* the next statement of _analyze_process on the analysis thread; an
\* exception leaving it would reach the handler of the pass, lines 995-997
SweepAnalyze ==
    /\ sweep_pc = "analyze"
    /\ \E r \in {RunSegment(Self, sweep_k)} :
         /\ Commit(r.s)
         /\ sweep_k' = r.k
         /\ sweep_pc' = IF r.s.exc THEN "idle"
                        ELSE IF r.k = <<>> THEN "scan" ELSE "analyze"
         /\ step' = StepOf("sweep", NoEvent, r)
    /\ UNCHANGED <<loaded_vars, running, log_vars, ingested, task,
                   sweep_pids, sweep_pid, sweeps, decide_vars, monitor_vars,
                   history_vars>>

\* what psutil and the clock say of a pid during a cleanup: the process is
\* gone; it exists, the test of line 1174 on the time of its first event is
\* true and its last event is older than the hour ("old") or within the hour
\* ("old_active"); it exists and the test of line 1174 is false ("alive")
Fates == {"gone", "old", "old_active", "alive"}

\* psutil.Process(int(pid)) does not raise
FateExists(fate) == fate # "gone"

\* (current_time - first_seen).seconds > 3600
FateFirstSeenOld(fate) == fate \in {"old", "old_active"}

\* lines 1169-1174 and 1184: the tests that lead to the removal of a pid
cleanup_due(s, pid, fate) ==
    \/ ~FateExists(fate)
    \/ (FateFirstSeenOld(fate) /\ pid \in DOMAIN s.info)

\* lines 1176-1181 and 1187-1192: the three guarded deletions, one after
\* the other; no other thread deletes, so a test and its del are one step
cleanup_remove(s, pid, pc) ==
    CASE pc = "remove" ->
           IF pid \in DOMAIN s.calls THEN calls_delete(s, pid) ELSE s
      [] pc = "remove_info" ->
           IF pid \in DOMAIN s.info
           THEN [s EXCEPT !.info = RemoveKey(s.info, pid)] ELSE s
      [] OTHER ->
           IF pid \in DOMAIN s.counters
           THEN [s EXCEPT !.counters = RemoveKey(s.counters, pid)] ELSE s

\* _cleanup_old_processes on the analysis thread: the tests for the next
\* pid of list(self.process_api_calls.keys()), up to the first of its
\* deletions; after the last pid the pass is over
SweepCleanup ==
    /\ sweep_pc = "cleanup"
    /\ IF sweep_pids = <<>>
       THEN /\ sweep_pc' = "idle"
            /\ sweeps' = sweeps + 1
            /\ step' = [NoStep EXCEPT !.thread = "cleanup"]
            /\ UNCHANGED <<sweep_pids, sweep_pid>>
       ELSE \E fate \in Fates :
              /\ sweep_pids' = Tail(sweep_pids)
              /\ sweep_pid' = Head(sweep_pids)
              /\ sweep_pc' = IF cleanup_due(Self, Head(sweep_pids), fate)
                             THEN "remove" ELSE "cleanup"
              /\ sweeps' = sweeps
              /\ step' = [NoStep EXCEPT
                             !.thread = "cleanup",
                             !.event = [pid |-> Head(sweep_pids),
                                        fate |-> fate]]
    /\ UNCHANGED <<detector_vars, loaded_vars, running, log_vars,
                   ingested, task, sweep_k, decide_vars, monitor_vars,
                   history_vars>>

\* _cleanup_old_processes on the analysis thread: the next of the three
\* deletions of a pid
SweepRemove ==
    /\ sweep_pc \in {"remove", "remove_info", "remove_counters"}
    /\ \E s \in {cleanup_remove(Self, sweep_pid, sweep_pc)} :
         /\ Commit(s)
         /\ step' = [NoStep EXCEPT !.thread = "cleanup",
                                   !.evicted = Evicted(s)]
         /\ removed' = IF sweep_pc = "remove_counters"
                           /\ sweep_pid \notin DOMAIN s.calls
                           /\ sweep_pid \notin DOMAIN s.info
                        THEN removed \cup {sweep_pid}
                        ELSE removed
    /\ sweep_pc' = CASE sweep_pc = "remove" -> "remove_info"
                     [] sweep_pc = "remove_info" -> "remove_counters"
                     [] OTHER -> "cleanup"
    /\ UNCHANGED <<loaded_vars, running, log_vars, ingested, task,
                   sweep_pids, sweep_pid, sweep_k, sweeps, decide_vars,
                   monitor_vars, token_log>>

\* stop(), line 319
Stop ==
    /\ running
    /\ running' = FALSE
    /\ step' = [NoStep EXCEPT !.thread = "main"]
    /\ UNCHANGED <<detector_vars, loaded_vars, log_vars, ingested, task,
                   sweep_vars, decide_vars, monitor_vars, history_vars>>

\* the steps of the two launched threads and of stop()
Threads == MonWhile \/ MonRead \/ MonEvent \/ MonFlush \/ Handle \/ MonSleep
              \/ SweepStart \/ SweepList \/ SweepScan \/ SweepAnalyze
              \/ SweepCleanup \/ SweepRemove \/ Stop

Next == Start \/ MonOpen \/ Threads

Spec == Init /\ [][Next]_vars

------------------------------------------------------------------------------
(* The fusion decision on its own: every label, confidence and threat      *)
(* score of the grid                                                       *)

ConfidenceScale == 100

Labels == {"Benign", "benign", "BENIGN", "Trojan", "Spyware"}

InitDecide ==
    /\ InitDetector
    /\ DefaultLoaded
    /\ model = [raises |-> FALSE, label |-> "Trojan", confidence |-> 60]
    /\ event_source = {}
    /\ reads_left = 0
    /\ d_in \in [label : Labels, confidence : 0..ConfidenceScale,
                 threat_score : 0..ThreatCap]
    /\ d_out = "none"

\* lines 1017-1046 applied to a classifier result and a threat score: the
\* fused decision and, when it is positive, the handling of the detection
Decide ==
    /\ d_out = "none"
    /\ LET ml_result == predict([raises |-> FALSE, label |-> d_in.label,
                                 confidence |-> d_in.confidence], <<>>, P1)
       IN  \E s \in {Run(Self, <<OpFused(P1, d_in.threat_score, ml_result),
                                 Except("analyze")>>)} :
             /\ Commit(s)
             /\ d_out' = IF s.log[1].is_malware THEN "malware" ELSE "clear"
             /\ step' = [NoStep EXCEPT !.thread = "decide", !.log = s.log,
                                       !.raised = s.raised]
    /\ UNCHANGED <<loaded_vars, running, log_vars, ingested, task,
                   sweep_vars, d_in, monitor_vars, history_vars>>

NextDecide == Decide

SpecDecide == InitDecide /\ [][NextDecide]_vars

------------------------------------------------------------------------------
(* States some events after start(): the events were handled one batch     *)
(* after the other before the analysis thread ran                          *)

\* a configuration file that turns the mitigation off
NoMitigation == [save_evidence |-> FALSE, quarantine_enabled |-> FALSE,
                 alert_webhook |-> None]

\* a detector just constructed
Fresh(m, cfg) ==
    [calls |-> <<>>, keys |-> <<>>, info |-> <<>>, counters |-> <<>>,
     stats |-> NoStats, detections |-> <<>>, model |-> m, config |-> cfg,
     exc |-> FALSE, raised |-> <<>>, log |-> <<>>, appended |-> <<>>]

\* _process_event_batch: the events of a batch in order, each one handled
\* before the next one is looked at
RECURSIVE process_event_batch(_, _)
process_event_batch(s, batch) ==
    IF batch = <<>> THEN s
    ELSE CHOOSE s2 \in {process_event_batch(s1, Tail(batch)) :
                           s1 \in {Run(s, process_event(Head(batch)))}} : TRUE

\* the detector and its history after the events of a batch were handled
Handled(s) ==
    /\ process_api_calls = s.calls
    /\ api_keys = s.keys
    /\ process_info = s.info
    /\ pattern_counters = s.counters
    /\ stats = s.stats
    /\ detections = s.detections
    /\ token_log = Ingested(<<>>, s.appended)
    /\ removed = {}

\* start() has launched the threads: the analysis thread is at its while
\* test, the monitor thread has opened the log and is at its own
Started ==
    /\ running = TRUE
    /\ sweep_pc = "idle"
    /\ mon_pc = "while"
    /\ mon_events = <<>>
    /\ events_batch = <<>>
    /\ mon_flush = <<>>
    /\ mon_late = FALSE

------------------------------------------------------------------------------
(* The engine with one process whose buffer is already long: the state     *)
(* after n file-create and image-load events between two analysis passes   *)

Prefill(n) == [i \in 1..n |-> IF i % 2 = 1 THEN "CreateFile"
                              ELSE "LoadLibrary:kernel32.dll"]

RingLens == {TrimAbove - 1, TrimAbove, BufferMaxLen - 1, BufferMaxLen}

\* the reads that return an event after the state of InitRing
RingMaxEvents == 2

RingEvents ==
    {EvImageLoad(P1, AppImage, KernelDll),
     EvFile(P1, AppImage, DocFile),
     EvThread(P1, AppImage, P2)}

InitRing ==
    /\ \E n \in RingLens :
         /\ process_api_calls = (P1 :> Prefill(n))
         /\ token_log = (P1 :> Prefill(n))
         /\ removed = {}
         /\ stats = [NoStats EXCEPT !.events_processed = n]
    /\ api_keys = <<P1>>
    /\ process_info = <<>>
    /\ pattern_counters = <<>>
    /\ detections = <<>>
    /\ Quiescent
    /\ Started
    /\ DefaultLoaded
    /\ model = [raises |-> FALSE, label |-> "Trojan", confidence |-> 60]
    /\ event_source = Singles(RingEvents)
    /\ reads_left = RingMaxEvents
    /\ d_in = NoDecision
    /\ d_out = "none"

SpecRing == InitRing /\ [][Threads]_vars

------------------------------------------------------------------------------
(* The engine with a classifier that answers Benign with any confidence    *)

VerdictEvents ==
    {EvImageLoad(P2, NotepadImage, KernelDll),
     EvFile(P2, NotepadImage, DocFile),
     EvThread(P2, NotepadImage, P1)}

\* the confidences 0.00, 0.05, .. 1.00
VerdictConfidences == {c \in 0..ConfidenceScale : c % 5 = 0}

\* the events handled before the state of InitVerdict: the process is one
\* event short of the minimum of calls, or has reached it
VerdictHistories ==
    {<<EvImageLoad(P2, NotepadImage, KernelDll),
       EvFile(P2, NotepadImage, DocFile)>>,
     <<EvImageLoad(P2, NotepadImage, KernelDll),
       EvFile(P2, NotepadImage, DocFile),
       EvFile(P2, NotepadImage, DocFile)>>}

\* the reads that return an event after the state of InitVerdict
VerdictMaxEvents == 1

InitVerdict ==
    /\ DefaultLoaded
    /\ \E c \in VerdictConfidences :
         model = [raises |-> FALSE, label |-> "Benign", confidence |-> c]
    /\ \E h \in VerdictHistories :
         Handled(process_event_batch(Fresh(model, config), h))
    /\ Quiescent
    /\ Started
    /\ event_source = Singles(VerdictEvents)
    /\ reads_left = VerdictMaxEvents
    /\ d_in = NoDecision
    /\ d_out = "none"

SpecVerdict == InitVerdict /\ [][Threads]_vars

------------------------------------------------------------------------------
(* The engine some events after start(): two processes with enough calls   *)
(* for the periodic pass, the first one with a positive verdict            *)

InjectorEvents(pid) ==
    <<EvThread(pid, AppImage, "99"), EvThread(pid, AppImage, "99"),
      EvThread(pid, AppImage, "99")>>
WriterEvents(pid) ==
    <<EvFile(pid, NotepadImage, DocFile), EvFile(pid, NotepadImage, DocFile),
      EvFile(pid, NotepadImage, DocFile)>>

SweepHistories ==
    {<<EvCreateShort(P1, AppImage)>> \o InjectorEvents(P1)
        \o WriterEvents(P2),
     <<EvCreate(P1, AppImage, "app.exe --run")>> \o InjectorEvents(P1)
        \o WriterEvents(P2),
     WriterEvents(P2) \o <<EvCreate(P1, AppImage, "app.exe --run")>>
        \o InjectorEvents(P1)}

\* events the pipeline drops: a kind outside the monitored set, an empty
\* field list, fields without a pid, a kind whose fields are not extracted
EvEmpty(id) == [EventID |-> id, StringInserts |-> <<>>]
EvNoPid(id) == [EventID |-> id, StringInserts |-> Inserts(6, (5 :> DocFile))]

\* the reads that return an event after the state of InitSweep
SweepMaxEvents == 1

SweepEvents ==
    {EvFile(P1, AppImage, DropFile),
     EvImageLoad(P2, NotepadImage, KernelDll),
     EvNet(P2, SvcImage, "10.0.0.5", "443"),
     EvThread(P2, NotepadImage, P1),
     EvAccess(P2, NotepadImage, LsassImage),
     EvFile(P2, NotepadImage, DropFile),
     EvOther(4, P1),
     EvEmpty(1),
     EvNoPid(11),
     EvOther(25, P1)}

InitSweep ==
    /\ model = [raises |-> FALSE, label |-> "Trojan", confidence |-> 60]
    /\ config \in {DefaultConfig, NoMitigation}
    /\ \E h \in SweepHistories :
         Handled(process_event_batch(Fresh(model, config), h))
    /\ Quiescent
    /\ Started
    /\ event_source = Singles(SweepEvents)
    /\ reads_left = SweepMaxEvents
    /\ d_in = NoDecision
    /\ d_out = "none"

SpecSweep == InitSweep /\ [][Threads]_vars

------------------------------------------------------------------------------
(* The monitor thread on its own against stop(): reads of one event, of    *)
(* two events and of a full batch                                          *)

MonitorEvent1 == EvFile(P1, AppImage, DropFile)
MonitorEvent2 == EvImageLoad(P2, NotepadImage, KernelDll)

\* what one ReadEventLog call may return, the empty list apart
MonitorReads ==
    {<<MonitorEvent1>>,
     <<MonitorEvent1, MonitorEvent2>>,
     [i \in 1..BatchSize |-> MonitorEvent2]}

InitMonitor ==
    /\ InitDetector
    /\ DefaultLoaded
    /\ model = [raises |-> FALSE, label |-> "Trojan", confidence |-> 60]
    /\ event_source = MonitorReads
    /\ reads_left = MaxEvents
    /\ d_in = NoDecision
    /\ d_out = "none"

NextMonitor == Start \/ MonOpen \/ MonWhile \/ MonRead \/ MonEvent
                  \/ MonFlush \/ Handle \/ MonSleep \/ Stop

SpecMonitor == InitMonitor /\ [][NextMonitor]_vars

------------------------------------------------------------------------------
(* Properties                                                              *)

IsBenignLabel(label) == label \in {"Benign", "benign", "BENIGN"}

Last(q) == q[Len(q)]

IsSuffixOf(a, b) ==
    /\ Len(a) <= Len(b)
    /\ a = SubSeq(b, Len(b) - Len(a) + 1, Len(b))

IsPrefixOf(a, b) == Len(a) <= Len(b) /\ a = SubSeq(b, 1, Len(a))

DetectionsFor(pid) ==
    Cardinality({i \in 1..Len(detections) : detections[i].pid = pid})

Whitelisted(event) ==
    /\ event_id_of(event) \in sysmon_events
    /\ Truthy(EventImage(event))
    /\ process_name_of(EventImage(event))
           \in {LowerName(p) : p \in whitelist_processes}

\* the monitor thread has just finished handling an event of kind id; task
\* holds what it did from the first statement of the handling to the last
IngestedEvent(id) ==
    /\ step.thread = "ingest"
    /\ step.done
    /\ event_id_of(step.event) = id
    /\ Truthy(EventPid(step.event))

\* the append of a token to a buffer that may be full
Appended(old, token) ==
    IF Len(old) >= BufferMaxLen THEN Append(Tail(old), token)
    ELSE Append(old, token)

\* C1: whatever the label and the confidence of the classifier result, a
\* threat score above the hard ceiling (70) gives is_malware = true.
C1_CeilingOverrides ==
    (d_out # "none" /\ d_in.threat_score > HardCeiling) => d_out = "malware"

C1_Witness ==
    /\ d_in = [label |-> "Benign", confidence |-> 99, threat_score |-> 80]
    /\ d_out = "malware"
    /\ Len(detections) = 1

\* C2: a classifier label equal to Benign in any letter case, with a threat
\* score that does not exceed the hard ceiling (70), gives is_malware = false
\* for every confidence.
C2_BenignOverrides ==
    (d_out # "none" /\ IsBenignLabel(d_in.label)
        /\ d_in.threat_score <= HardCeiling) => d_out = "clear"

\* C3: an analysis whose classifier call fails goes on with confidence 0, so
\* a threat score above the hard ceiling (70) still gives a positive verdict
\* and the detection handling.
C3_ClassifierFailureDegrades ==
    \A i \in 1..Len(step.log) :
        (step.log[i].ran /\ ~step.log[i].ml_ok
            /\ step.log[i].threat_score > HardCeiling)
        => step.log[i].is_malware

\* C4: the suspicion score stored for a pid stays within 0..100 after any
\* sequence of heuristic events.
C4_ScoreClamped ==
    \A pid \in DOMAIN process_info :
        /\ process_info[pid].suspicious_score >= 0
        /\ process_info[pid].suspicious_score <= ThreatCap

\* C5: a pid's token buffer never holds more than its capacity (500) tokens;
\* a step that appends a token leaves the old buffer followed by the token,
\* without its oldest token when the old buffer was full.
C5_BufferBound ==
    \A pid \in DOMAIN process_api_calls :
        Len(process_api_calls[pid]) <= BufferMaxLen

C5_AppendStep ==
    step'.appended # <<>> =>
        LET pid == step'.appended[1][1]
            token == step'.appended[1][2]
        IN  /\ Len(step'.appended) = 1
            /\ pid \in DOMAIN process_api_calls'
            /\ process_api_calls'[pid]
                  = IF pid \in DOMAIN process_api_calls
                    THEN IF Len(process_api_calls[pid]) = BufferMaxLen
                         THEN Append(Tail(process_api_calls[pid]), token)
                         ELSE Append(process_api_calls[pid], token)
                    ELSE <<token>>

C5_RingBuffer == [](C5_BufferBound) /\ [][C5_AppendStep]_vars

C5_Witness ==
    /\ step.thread = "ingest"
    /\ event_id_of(step.event) = 7
    /\ stats.events_processed > BufferMaxLen
    /\ P1 \in DOMAIN process_api_calls
    /\ Len(process_api_calls[P1]) = BufferMaxLen
    /\ process_api_calls[P1][BufferMaxLen] = "LoadLibrary:kernel32.dll"
    /\ process_api_calls[P1][BufferMaxLen - 1] = "LoadLibrary:kernel32.dll"

\* C6: the detection handling runs exactly once for a pid with a positive
\* verdict: not once per triggering path and not again on a later pass.
C6_MitigatedOnce ==
    \A pid \in {P1, P2} : DetectionsFor(pid) <= 1

\* the analysis thread stands before the trim of its analysis
SweepTrims ==
    /\ sweep_pc = "analyze"
    /\ sweep_k # <<>>
    /\ Head(sweep_k).op = "trim"

\* C7: a token appended to a pid's buffer while the analysis thread works on
\* an earlier snapshot of that pid is still in the buffer when that analysis
\* finishes.
C7_NoTokenLost ==
    [][(/\ SweepTrims
        /\ sweep_k' # sweep_k
        /\ sweep_pid \in DOMAIN process_api_calls
        /\ IsPrefixOf(Head(sweep_k).api_calls, process_api_calls[sweep_pid]))
       => /\ sweep_pid \in DOMAIN process_api_calls'
          /\ IsSuffixOf(SubSeq(process_api_calls[sweep_pid],
                               Len(Head(sweep_k).api_calls) + 1,
                               Len(process_api_calls[sweep_pid])),
                        process_api_calls'[sweep_pid])]_vars

\* C8: the ingestion thread never runs an analysis itself: a request for an
\* immediate analysis raised while an event is handled waits for the
\* analysis thread.
C8_IngestNeverAnalyzes ==
    step.thread = "ingest" =>
        \A i \in 1..Len(step.log) : ~step.log[i].ran

\* C9: every remote-thread event with a source pid, tracked or not, makes the
\* handler request an analysis of that pid while the event is ingested,
\* wherever the analysis thread stands.
C9_InjectionRequestsAnalysis ==
    IngestedEvent(8) =>
        \E i \in 1..Len(task.log) : task.log[i].pid = EventPid(step.event)

\* C10: an event of any monitored kind whose process image is on the
\* whitelist creates no record for the pid and appends no token.
C10_WhitelistedDiscarded ==
    [][(step'.thread = "ingest" /\ Whitelisted(step'.event))
       => UNCHANGED <<process_api_calls, api_keys, process_info>>]_vars

\* the detector with nothing kept for a pid
Erased(s, pid) ==
    [s EXCEPT !.calls = RemoveKey(s.calls, pid),
              !.keys = RemoveFromSeq(s.keys, pid),
              !.info = RemoveKey(s.info, pid),
              !.counters = RemoveKey(s.counters, pid)]

\* what the detector keeps for a pid
PidState(calls, info, counters, pid) ==
    [calls |-> Get(calls, pid, <<>>),
     score |-> IF pid \in DOMAIN info THEN info[pid].suspicious_score ELSE 0,
     counters |-> Get(counters, pid, NoCounters)]

\* C11: the handling of the first event taken for a pid after the removal
\* of that pid leaves for the pid what it leaves on a detector that never
\* saw the pid: score 0, only its own tokens, only its own pattern counts.
C11_FreshAfterEviction ==
    [][\A pid \in removed :
         (step'.thread = "pull" /\ EventPid(step'.event) = pid)
         => LET ops == process_event(step'.event)
                here == Run(Self, ops)
                fresh == Run(Erased(Self, pid), ops)
            IN  PidState(here.calls, here.info, here.counters, pid)
                = PidState(fresh.calls, fresh.info, fresh.counters, pid)]_vars

\* C12: the adjusted confidence is (confidence + threat_score/100)/2, here
\* as confidence% + threat_score on the scale of 200; for a label other than
\* Benign is_malware is true exactly when the adjusted confidence exceeds the
\* threshold 0.5, or the threat score exceeds 70, or the confidence exceeds
\* 0.4 and the threat score exceeds 50, every comparison strict.
C12_FusionRule ==
    d_out # "none" =>
        LET e == step.log[1]
        IN  /\ e.confidence = d_in.confidence
            /\ e.threat_score = d_in.threat_score
            /\ e.adjusted_x200 = d_in.confidence + d_in.threat_score
            /\ ~IsBenignLabel(d_in.label) =>
                   ((d_out = "malware")
                    <=> \/ e.adjusted_x200 > 100
                        \/ d_in.threat_score > 70
                        \/ (d_in.confidence > 40 /\ d_in.threat_score > 50))

C12_Witness ==
    /\ d_in = [label |-> "Trojan", confidence |-> 30, threat_score |-> 70]
    /\ d_out = "clear"
    /\ step.log[1].adjusted_x200 = 100

\* C13 as stated: label Spyware with confidence 0.9 and threat score 0 gives
\* is_malware = true at the threshold 0.5.
C13_SpywareFlagged ==
    (d_out # "none"
     /\ d_in = [label |-> "Spyware", confidence |-> 90, threat_score |-> 0])
    => d_out = "malware"

\* C13 as amended: label Spyware with confidence 0.9 and threat score 0 has
\* the adjusted confidence 0.45, not above the threshold 0.5, and gives
\* is_malware = false.
C13_SpywareCleared ==
    (d_out # "none"
     /\ d_in = [label |-> "Spyware", confidence |-> 90, threat_score |-> 0])
    => /\ d_out = "clear"
       /\ step.log[1].adjusted_x200 = 90
       /\ detections = <<>>

C13_Witness ==
    /\ d_in = [label |-> "Spyware", confidence |-> 90, threat_score |-> 0]
    /\ d_out = "clear"

\* the calls of the mitigation
MitigationCalls ==
    {"_save_evidence", "_quarantine_process", "_send_webhook_alert"}

\* C14: an analysis with threat score 0 under a classifier that answers
\* Benign, whatever its confidence, gives is_malware = false; no detection
\* is recorded for such an analysis, and no mitigation call is made but for
\* a pid with a recorded detection.
C14_BenignQuietIsClear ==
    IsBenignLabel(model.label) =>
        /\ \A i \in 1..Len(step.log) :
              step.log[i].threat_score = 0 => ~step.log[i].is_malware
        /\ \A i \in 1..Len(detections) : detections[i].threat_score > 0
        /\ \A i \in 1..Len(step.raised) :
              step.raised[i][1] \in MitigationCalls
              => DetectionsFor(step.raised[i][2]) > 0

C14_Witness ==
    /\ model = [raises |-> FALSE, label |-> "Benign", confidence |-> 95]
    /\ step.log # <<>>
    /\ step.log[1].ran
    /\ step.log[1].pid = P2
    /\ step.log[1].threat_score = 0
    /\ step.log[1].confidence = 95
    /\ ~step.log[1].is_malware
    /\ detections = <<>>

\* C15: when the call that persists the evidence fails, the positive verdict
\* is still followed by the termination call, quarantine being enabled, and
\* by the alert call when an alert endpoint is configured.
C15_EvidenceFailureIsolated ==
    \A i \in 1..Len(step.raised) :
        step.raised[i][1] = "_save_evidence"
        => /\ config.quarantine_enabled =>
                 \E j \in (i + 1)..Len(step.raised) :
                     step.raised[j] = <<"_quarantine_process",
                                        step.raised[i][2]>>
           /\ Truthy(config.alert_webhook) =>
                 \E j \in (i + 1)..Len(step.raised) :
                     step.raised[j] = <<"_send_webhook_alert",
                                        step.raised[i][2]>>

\* C16: an error raised while one pid is analysed or mitigated leaves the
\* periodic pass running: the pids still to visit are kept, the loop over
\* the listed pids ends only when every one of them has been visited, and
\* every visited pid with enough calls is analysed.
C16_ErrorKeepsPassGoing ==
    [][/\ (step'.thread = "sweep" /\ step'.raised # <<>>)
          => (sweep_pc' = "scan" /\ sweep_pids' = sweep_pids)
       /\ (sweep_pc \in {"scan", "analyze"}
              /\ sweep_pc' \notin {"scan", "analyze"})
          => (sweep_pc = "scan" /\ sweep_pids = <<>>)
       /\ (/\ sweep_pc = "scan"
           /\ sweep_pids # <<>>
           /\ step'.thread = "sweep"
           /\ Len(process_api_calls'[Head(sweep_pids)]) >= MinApiCalls)
          => /\ sweep_pc' = "analyze"
             /\ sweep_pid' = Head(sweep_pids)
             /\ sweep_k' = <<OpAnalyze(Head(sweep_pids))>>
       /\ (/\ sweep_pc = "analyze"
           /\ step'.thread = "sweep"
           /\ Head(sweep_k).op = "analyze"
           /\ sweep_pid \in DOMAIN process_api_calls
           /\ Len(process_api_calls[sweep_pid]) >= MinApiCalls)
          => /\ sweep_pc' = "analyze"
             /\ Head(sweep_k').op = "verdict"
             /\ Head(sweep_k').pid = sweep_pid
       /\ (/\ sweep_pc = "analyze"
           /\ step'.thread = "sweep"
           /\ Head(sweep_k).op = "verdict"
           /\ step'.log = <<>>)
          => /\ sweep_pc' = "analyze"
             /\ Head(sweep_k') = OpThreat(sweep_pid, Head(sweep_k).api_calls)
       /\ (/\ sweep_pc = "analyze"
           /\ step'.thread = "sweep"
           /\ Head(sweep_k).op \in {"verdict", "threat"}
           /\ (Head(sweep_k).op = "threat" \/ step'.log # <<>>))
          => /\ step'.log # <<>>
             /\ step'.log[1].pid = sweep_pid
             /\ step'.log[1].ran]_vars

C16_Witness ==
    /\ config = DefaultConfig
    /\ api_keys = <<P1, P2>>
    /\ step.thread = "sweep"
    /\ step.raised = <<<<"_save_evidence", P1>>>>
    /\ sweep_pc = "scan"
    /\ sweep_pids = <<P2>>
    /\ Last(detections).pid = P1

\* C17: when the monitor thread has left its loop, no event it pulled from
\* the log is left unprocessed in its batch.
C17_PulledEventsProcessed ==
    mon_pc = "exited" => (events_batch = <<>>
                          /\ stats.events_processed = ingested)

\* C18: while the engine is running the monitor thread never leaves its
\* loop, whatever the event log does.
C18_SourceFailureNeverExits ==
    running => mon_pc # "exited"

\* the least element of a non-empty set of numbers
Least(S) == CHOOSE x \in S : \A y \in S : x <= y

\* a from position i on can be read off b from position j on, left to right:
\* a[i] is matched at its first occurrence in b, together with the tokens
\* that follow it in both, and the rest is matched after them
RECURSIVE Embeds(_, _, _, _)
Embeds(a, i, b, j) ==
    IF i > Len(a) THEN TRUE
    ELSE LET hits == {k \in j..Len(b) : b[k] = a[i]}
         IN  IF hits = {} THEN FALSE
             ELSE LET k == Least(hits)
                      most == Min(Len(a) - i, Len(b) - k)
                      differ == {d \in 1..most : a[i + d] # b[k + d]}
                      run == IF differ = {} THEN most + 1 ELSE Least(differ)
                  IN  Embeds(a, i + run, b, k + run)

\* C19: after any interleaving of appends, ring evictions, analyses and
\* trims, the buffer of every pid is an order-preserving subsequence of the
\* tokens ingested for that pid, in ingestion order.
C19_BufferKeepsIngestionOrder ==
    \A pid \in DOMAIN process_api_calls :
        Embeds(process_api_calls[pid], 1,
               IF pid \in DOMAIN token_log THEN token_log[pid] ELSE <<>>, 1)

C19_Witness ==
    /\ step.thread = "sweep"
    /\ P1 \in DOMAIN process_api_calls
    /\ Len(process_api_calls[P1]) = TrimKeep
    /\ Len(token_log[P1]) > TrimAbove
    /\ Last(token_log[P1]) = "CreateRemoteThread"
    /\ ~IsSuffixOf(process_api_calls[P1], token_log[P1])

\* the event is one the pipeline has to drop: its kind is not monitored,
\* its field list is empty, or its fields give no pid
Dropped(event) ==
    LET d == parse_event_xml(event)
    IN  \/ event_id_of(event) \notin sysmon_events
        \/ event.StringInserts = <<>>
        \/ (~Truthy(Get(d, "ProcessId", None))
               /\ ~Truthy(Get(d, "SourceProcessId", None)))

\* C20: the handling of an event of an unmonitored kind, with an empty field
\* list or without a pid leaves the buffers, records, scores and pattern
\* counters of every process as they were, starts no analysis, raises
\* nothing, and counts the event as processed like any event.
C20_DroppedEventChangesNothing ==
    [][(step'.thread = "ingest" /\ Dropped(step'.event))
       => /\ UNCHANGED <<process_api_calls, api_keys, process_info,
                         pattern_counters, detections, token_log>>
          /\ step'.appended = <<>>
          /\ step'.log = <<>>
          /\ step'.raised = <<>>
          /\ step'.done
          /\ stats' = [stats EXCEPT !.events_processed = @ + 1]]_vars

C20_Witness ==
    /\ step.thread = "ingest"
    /\ step.done
    /\ step.event = EvNoPid(11)
    /\ api_keys = <<P1, P2>>
    /\ process_info # <<>>
    /\ pattern_counters # <<>>
    /\ ingested = 1
    /\ stats.events_processed = Len(token_log[P1]) + Len(token_log[P2]) + 1

\* C21: the threat score handed to the fusion decision is an integer within
\* 0..100 in every analysis, whatever the score stored for the process and
\* whatever patterns its buffer holds.
C21_ThreatScoreInRange ==
    \A i \in 1..Len(step.log) :
        step.log[i].ran => step.log[i].threat_score \in 0..ThreatCap

C21_Witness ==
    /\ step.thread = "ingest"
    /\ step.log # <<>>
    /\ step.log[1].ran
    /\ step.log[1].threat_score = ThreatCap
    /\ step.log[1].pid \in DOMAIN process_info
    /\ process_info[step.log[1].pid].suspicious_score > ThreatCap

\* the pids with a handled positive verdict
Detected == {detections[i].pid : i \in DOMAIN detections}

\* C22: a pid whose positive verdict has been handled is not handled again
\* by a later periodic pass: its record has been evicted by then.
C22_MitigatedThenEvicted ==
    [][(/\ step'.thread = "sweep"
        /\ Len(detections') > Len(detections))
       => Last(detections').pid \notin Detected]_vars

\* C23: the immediate-analysis request of a remote-thread event produces an
\* analysis (threat score, classification, verdict) of the source pid while
\* the event is handled whenever the buffer of the pid holds a token, fewer
\* than the minimum of calls included.
C23_ImmediateIgnoresFloor ==
    (/\ IngestedEvent(8)
     /\ EventPid(step.event) \in DOMAIN process_api_calls
     /\ Len(process_api_calls[EventPid(step.event)]) >= 1)
    => \E i \in 1..Len(task.log) :
          task.log[i].pid = EventPid(step.event) /\ task.log[i].ran

\* the process of the fate no longer exists, or its last event is older
\* than the staleness window
Stale(fate) == fate \in {"gone", "old"}

\* C24: a maintenance pass goes on to the removal of a listed pid exactly
\* when its process no longer exists or its last activity is older than the
\* staleness window; a process that exists and produced an event within the
\* window is passed over.
C24_EvictedIffStale ==
    [][(step'.thread = "cleanup" /\ "fate" \in DOMAIN step'.event)
       => /\ sweep_pid' = step'.event.pid
          /\ (sweep_pc' = "remove") <=> Stale(step'.event.fate)]_vars

\* the buffer after the trim of an analysis that started on the buffer b
Trimmed(b) ==
    IF Len(b) <= TrimAbove THEN b ELSE SubSeq(b, Len(b) - TrimKeep + 1, Len(b))

\* the step of a thread from before the trim of an analysis of pid that
\* started on the buffer b: the record of the pid stays, and the buffer is
\* left as it stands when b held at most 100 tokens, the last 50 tokens of b
\* otherwise
TrimStep(pid, b) ==
    pid \in DOMAIN process_api_calls
    => /\ pid \in DOMAIN process_api_calls'
       /\ process_info' = process_info
       /\ process_api_calls'[pid] = IF Len(b) <= TrimAbove
                                    THEN process_api_calls[pid]
                                    ELSE Trimmed(b)
       /\ IsSuffixOf(process_api_calls'[pid],
                     IF Len(b) <= TrimAbove THEN process_api_calls[pid]
                     ELSE b)

\* C25: an analysis with a clear verdict, on the analysis thread or inline
\* on the thread that handles an event, leaves the record of the pid in
\* place and its buffer a suffix of the buffer it started on: untouched when
\* that held at most 100 tokens, its last 50 tokens otherwise.
C25_ClearVerdictTrims ==
    [][/\ (SweepTrims /\ step'.thread = "sweep")
          => TrimStep(sweep_pid, Head(sweep_k).api_calls)
       /\ (/\ step'.thread = "ingest"
           /\ task.k # <<>>
           /\ Head(task.k).op = "trim")
          => TrimStep(Head(task.k).pid, Head(task.k).api_calls)]_vars

C25_Witness ==
    /\ step.thread = "sweep"
    /\ sweep_pc = "scan"
    /\ sweep_pid = P1
    /\ detections = <<>>
    /\ P1 \in DOMAIN process_api_calls
    /\ Len(process_api_calls[P1]) = TrimKeep
    /\ Len(token_log[P1]) = BufferMaxLen
    /\ IsSuffixOf(process_api_calls[P1], token_log[P1])

\* C26: one ingested remote-thread event raises the stored score of its
\* source pid by exactly 50, up to the ceiling of 100, every change made
\* while the event is handled counted.
C26_InjectionAddsFifty ==
    (/\ IngestedEvent(8)
     /\ EventPid(step.event) \in DOMAIN task.before
     /\ EventPid(step.event) \in DOMAIN process_info)
    => process_info[EventPid(step.event)].suspicious_score
          = Min(task.before[EventPid(step.event)].suspicious_score
                   + InjectionDelta, ThreatCap)

\* the pid field of the raw record of an event
RecordPid(event) == Field(event.StringInserts, 3)

\* C27: the handling of a process-tampering event (id 25) whose record names
\* a tracked pid raises the stored score of the pid by 50 and analyses the
\* pid before the event is done with, without waiting for the periodic pass.
C27_TamperingAnalysedAtOnce ==
    (/\ step.thread = "ingest"
     /\ step.done
     /\ event_id_of(step.event) = 25
     /\ RecordPid(step.event) \in DOMAIN task.before
     /\ RecordPid(step.event) \in DOMAIN process_info)
    => LET pid == RecordPid(step.event)
       IN  /\ process_info[pid].suspicious_score
                 = task.before[pid].suspicious_score + TamperDelta
           /\ \E i \in 1..Len(task.log) : task.log[i].pid = pid

\* C28: a pid removed from the store has no entry in it for as long as no
\* new event for that pid has been taken: nothing that was under way when
\* the pid was removed creates an entry for it.
C28_RemovedStaysAbsent ==
    \A pid \in removed : pid \notin DOMAIN process_api_calls

\* C28, the part on the periodic pass alone: an entry for a pid that has none
\* is created by a step of the handling of an event for that pid, never by a
\* step of the analysis thread.
C28_PassNeverRecreates ==
    [][\A pid \in {P1, P2} :
          (pid \notin DOMAIN process_api_calls
              /\ pid \in DOMAIN process_api_calls')
          => (step'.thread = "ingest" /\ EventPid(step'.event) = pid)]_vars

\* C29: the handling of an event of a kind other than ProcessCreate (network
\* connect, remote thread, process access, file create) for a pid without
\* metadata record appends its token to the buffer of the pid, one token for
\* the event, and creates or changes no stored score; every analysis of the
\* pid it runs has the threat score of the analysed buffer alone, the stored
\* score counting 0.
C29_Handling ==
    (/\ step'.thread = "ingest"
     /\ event_id_of(step'.event) \in {3, 8, 10, 11}
     /\ Truthy(EventPid(step'.event))
     /\ EventPid(step'.event) \notin DOMAIN process_info)
    => LET pid == EventPid(step'.event)
       IN  /\ process_info' = process_info
           /\ step'.appended # <<>> =>
                 /\ step'.appended[1][1] = pid
                 /\ Last(process_api_calls'[pid]) = step'.appended[1][2]
           /\ step'.done => Len(task'.appended) = 1
           /\ \A i \in 1..Len(step'.log) : step'.log[i].pid = pid
           /\ Head(task.k).op = "verdict" =>
                 /\ step'.log # <<>>
                 /\ step'.log[1].ran
                 /\ step'.log[1].threat_score
                       = calculate_threat_score(
                             [Self EXCEPT !.info = <<>>], pid,
                             Head(task.k).api_calls)

C29_ScoreOnlyForTrackedPid == [][C29_Handling]_vars

C29_Witness ==
    /\ step.thread = "ingest"
    /\ event_id_of(step.event) = 8
    /\ P2 \notin DOMAIN process_info
    /\ P2 \in DOMAIN process_api_calls
    /\ process_api_calls[P2] = <<"CreateFile", "CreateFile", "CreateFile",
                                 "CreateRemoteThread">>
    /\ sweep_pc = "analyze"
    /\ Len(step.log) = 1
    /\ step.log[1].ran
    /\ step.log[1].pid = P2
    /\ step.log[1].threat_score = 2 * PatternWeight

\* a step of the handler of a ProcessCreate event, not whitelisted, for a
\* pid that is tracked
RecreateStep ==
    /\ step'.thread = "ingest"
    /\ event_id_of(step'.event) = 1
    /\ ~Whitelisted(step'.event)
    /\ Truthy(EventPid(step'.event))
    /\ EventPid(step'.event) \in DOMAIN process_info
    /\ EventPid(step'.event) \in DOMAIN process_api_calls
    /\ EventPid(step'.event) \in DOMAIN pattern_counters

\* C30: the handler of a ProcessCreate event, not whitelisted, for a pid
\* that is tracked replaces the metadata record of the pid by a new one with
\* score 0; the buffer is the old buffer with CreateProcess appended, the
\* pattern counters are kept (the count of suspicious commands may grow),
\* and no analysis runs: statement by statement, for as long as the pid is
\* tracked.
C30_RecreateResetsScore ==
    [][RecreateStep
       => LET pid == EventPid(step'.event)
              d == parse_event_xml(step'.event)
              op == Head(task.k).op
          IN  /\ IF op = "record"
                 THEN /\ process_info'[pid].suspicious_score = 0
                      /\ process_info'[pid].image = d.Image
                      /\ process_info'[pid].cmdline = d.CommandLine
                 ELSE process_info' = process_info
              /\ process_api_calls'
                    = IF op = "append"
                      THEN [process_api_calls EXCEPT
                               ![pid] = Appended(@, "CreateProcess")]
                      ELSE process_api_calls
              /\ (op = "record" /\ Tail(task.k) # <<>>)
                    => Head(task'.k) = OpAppend(pid, "CreateProcess")
              /\ \A name \in DOMAIN NoCounters :
                    IF name = "suspicious_commands"
                    THEN pattern_counters'[pid][name]
                            >= pattern_counters[pid][name]
                    ELSE pattern_counters'[pid][name]
                            = pattern_counters[pid][name]
              /\ step'.log = <<>>
              /\ stats'.processes_monitored
                    = stats.processes_monitored
                         + (IF op = "stat"
                               /\ Head(task.k).name = "processes_monitored"
                            THEN 1 ELSE 0)
              /\ step'.done =>
                    /\ task'.appended = <<<<pid, "CreateProcess">>>>
                    /\ stats'.processes_monitored > 0]_vars

C30_Witness ==
    /\ step.thread = "ingest"
    /\ step.done
    /\ event_id_of(step.event) = 1
    /\ P1 \in DOMAIN process_info
    /\ P1 \in DOMAIN process_api_calls
    /\ P1 \in DOMAIN pattern_counters
    /\ process_info[P1].suspicious_score = 0
    /\ process_api_calls[P1] = <<"CreateProcess", "CreateRemoteThread",
                                 "CreateProcess">>
    /\ pattern_counters[P1].injection = 1
    /\ stats.processes_monitored = 2
    /\ stats.polymorphic_detected = 1

====
